---- MODULE Spec2Model ----
(***************************************************************************)
(* A model of the quick-open plugin "grab": the bounded source indexer     *)
(* (src/src/files.rs) and the query engine (src/src/search.rs,             *)
(* src/src/search_state.rs, src/src/main.rs).                              *)
(*                                                                         *)
(* Strings that the code inspects byte by byte or character by character   *)
(* are sequences of one-character strings; Rust's 0-based offsets are      *)
(* 1-based positions here.  An Option is a sequence of length at most one: *)
(* None is << >> and Some(x) is << x >>.                                   *)
(***************************************************************************)
EXTENDS Integers, Sequences, FiniteSets, TLC

VARIABLES
    \* ---- scan_with_bytes (files.rs:121) : one file being parsed
    bytes,          \* the content handed to scan_with_bytes
    scan,           \* its locals: i, line_num, definitions, and whether it returned
    \* ---- get_all_files (files.rs:22) : one directory traversal
    queue,          \* VecDeque of directories still to read
    files,          \* Vec of discovered (cleaned) file paths
    entries,        \* what is left of the current read_dir iterator
    dirs_in_level,  \* sub-directories found in the current directory
    read_log,       \* every directory handed to fs::read_dir, in order, with the
                    \* answer it got and files.len() at the time of the call
    result,         \* the BTreeMap returned (path -> definitions)
    scan_pc,        \* position in get_all_files
    \* ---- SearchState (search_state.rs:6) and what is derived from it
    search_term,          \* SearchState.search_term
    files_panes_results,  \* SearchState.files_panes_results
    mode,                 \* the value of get_rust_asset_search_mode()
    display,              \* the value of get_current_display_results()
    query_pc,             \* which of the two has been computed
    \* ---- SearchEngine::search_dual (search.rs:114): arguments and result
    panes,                \* panes: &[PaneMetadata]
    pool_files,           \* files: &[PathBuf]
    rust_assets,          \* rust_assets: &[TypeDefinition]
    shell_histories,      \* shell name -> Vec<DeduplicatedCommand>
    current_cwd,          \* current_cwd: &PathBuf
    matcher,              \* what SkimMatcherV2::fuzzy_indices answers per text
    dual_results,         \* the DualSearchResults returned
    matcher_calls,        \* how often fuzzy_indices was called
    displayed_files,      \* what get_displayed_files returned (search.rs:311)
    search_pc,            \* "idle", "call", "returned" or "rendered"
    \* ---- State (main.rs:81) and the host it talks to
    selected_index,           \* UIState.selected_index
    request_ids,              \* State.request_ids
    initial_cwd,              \* State.initial_cwd
    searching_for_git_repo,   \* State.searching_for_git_repo
    user_selected_directory,  \* the flag behind AppState::is_user_selected_directory
    plugin_ids,               \* what get_plugin_ids() answers
    host_folder,              \* the folder mounted at /host
    host_queue,               \* change_host_folder requests the host has not applied
    folder_events,            \* HostFolderChanged events not yet delivered
    uuid_count,               \* how many Uuid::new_v4 values were drawn
    event,                    \* the event or message handled last
    calls,                    \* the host calls made while handling it
    plugin_pc                 \* "idle", "unloaded", "loaded", "running" or "closed"

vars == << bytes, scan, queue, files, entries, dirs_in_level, read_log, result, scan_pc,
           search_term, files_panes_results, mode, display, query_pc,
           panes, pool_files, rust_assets, shell_histories, current_cwd, matcher,
           dual_results, matcher_calls, displayed_files, search_pc,
           selected_index, request_ids, initial_cwd, searching_for_git_repo,
           user_selected_directory, plugin_ids, host_folder, host_queue, folder_events,
           uuid_count, event, calls, plugin_pc >>

parseVars == << bytes, scan >>
walkVars == << queue, files, entries, dirs_in_level, read_log, result, scan_pc >>
queryVars == << search_term, files_panes_results, mode, display, query_pc >>
searchVars == << panes, pool_files, rust_assets, shell_histories, current_cwd, matcher,
                dual_results, matcher_calls, displayed_files, search_pc >>

pluginVars == << selected_index, request_ids, initial_cwd, searching_for_git_repo,
                user_selected_directory, plugin_ids, host_folder, host_queue, folder_events,
                uuid_count, event, calls, plugin_pc >>

None == << >>
Some(x) == << x >>

Min(S) == CHOOSE m \in S : \A n \in S : m <= n

\* The search engine while another part of the program is examined.
SearchIdle ==
    /\ panes = << >> /\ pool_files = << >> /\ rust_assets = << >>
    /\ shell_histories = << >> /\ current_cwd = "" /\ matcher = << >>
    /\ dual_results = << >> /\ matcher_calls = 0 /\ displayed_files = << >>
    /\ search_pc = "idle"

\* The plugin while another part of the program is examined.
PluginIdle ==
    /\ selected_index = None /\ request_ids = << >> /\ initial_cwd = None
    /\ searching_for_git_repo = FALSE /\ user_selected_directory = FALSE
    /\ plugin_ids = << >> /\ host_folder = << >> /\ host_queue = << >>
    /\ folder_events = << >> /\ uuid_count = 0 /\ event = << >> /\ calls = << >>
    /\ plugin_pc = "idle"

\* The search state while another part of the program is examined.
QueryIdle ==
    /\ search_term = << >> /\ files_panes_results = << >>
    /\ mode = None /\ display = << >> /\ query_pc = "idle"

(***************************************************************************)
(* Bytes and characters                                                    *)
(***************************************************************************)
Lower == {"a","b","c","d","e","f","g","h","i","j","k","l","m",
          "n","o","p","q","r","s","t","u","v","w","x","y","z"}
Upper == {"A","B","C","D","E","F","G","H","I","J","K","L","M",
          "N","O","P","Q","R","S","T","U","V","W","X","Y","Z"}
Digit == {"0","1","2","3","4","5","6","7","8","9"}
\* The two bytes of U+00E9 (a letter outside ASCII) and a byte that is no UTF-8.
ByteC3 == "0xC3"
ByteA9 == "0xA9"
ByteFF == "0xFF"
CharEAcute == "U+00E9"
CharReplacement == "U+FFFD"

\* String::from_utf8_lossy on the identifier bytes (files.rs:271): ASCII bytes
\* are their characters, a well-formed two-byte sequence is one character, any
\* other byte becomes U+FFFD.
RECURSIVE from_utf8_lossy(_)
from_utf8_lossy(bs) ==
    IF bs = << >> THEN << >>
    ELSE IF bs[1] = ByteC3 /\ Len(bs) >= 2 /\ bs[2] = ByteA9
         THEN << CharEAcute >> \o from_utf8_lossy(SubSeq(bs, 3, Len(bs)))
    ELSE IF bs[1] \in {ByteC3, ByteA9, ByteFF}
         THEN << CharReplacement >> \o from_utf8_lossy(Tail(bs))
    ELSE << bs[1] >> \o from_utf8_lossy(Tail(bs))

\* char::is_alphabetic / char::is_alphanumeric on the characters of the model.
is_alphabetic(c) == c \in Lower \cup Upper \cup {CharEAcute}
is_alphanumeric(c) == is_alphabetic(c) \/ c \in Digit

\* str::len counts UTF-8 bytes.
Utf8Width(c) == IF c = CharEAcute THEN 2 ELSE IF c = CharReplacement THEN 3 ELSE 1
RECURSIVE StrLen(_)
StrLen(s) == IF s = << >> THEN 0 ELSE Utf8Width(s[1]) + StrLen(Tail(s))

\* A variant of IsBlank that forgets the tab.
IsBlankSpaceOnly(b) == b = " "

IsBlank(b) == b = " " \/ b = "\t"

\* First position >= i of s that holds no space or tab (Len(s)+1 if none).
SkipBlanks(s, i) ==
    LET rest == {j \in i..Len(s) : ~IsBlank(s[j])}
    IN  IF rest = {} THEN Len(s) + 1 ELSE Min(rest)

\* First position >= i of s that holds a newline (Len(s)+1 if none).
FindNewline(s, i) ==
    LET rest == {j \in i..Len(s) : s[j] = "\n"}
    IN  IF rest = {} THEN Len(s) + 1 ELSE Min(rest)

StartsWith(s, p) == Len(s) >= Len(p) /\ SubSeq(s, 1, Len(p)) = p

(***************************************************************************)
(* SymbolExtractor: files.rs                                               *)
(***************************************************************************)
MaxNameLen == 100
MaxDefinitions == 50
MaxFileSize == 1000000

\* files.rs:281
is_valid_identifier(name) ==
    /\ name # << >>
    /\ is_alphabetic(name[1])
    /\ \A k \in 1..Len(name) : is_alphanumeric(name[k]) \/ name[k] = "_"
    /\ StrLen(name) < MaxNameLen

IdentTerminators == {"<", "{", "(", ";", " ", "\t", "\n", "\r"}

\* files.rs:244
extract_identifier(bs) ==
    LET start == SkipBlanks(bs, 1)
        stops == {j \in start..Len(bs) : bs[j] \in IdentTerminators}
        end   == IF stops = {} THEN Len(bs) + 1 ELSE Min(stops)
        name  == from_utf8_lossy(SubSeq(bs, start, end - 1))
    IN  IF start > Len(bs) THEN None
        ELSE IF end = start THEN None
        ELSE IF is_valid_identifier(name) THEN Some(name)
        ELSE None

KwPub == << "p","u","b" >>
KwStruct == << "s","t","r","u","c","t" >>
KwEnum == << "e","n","u","m" >>
KwFn == << "f","n" >>

\* A variant of KeywordAt that does not look at the byte after the keyword.
KeywordAtNoSpace(line, i, kw) ==
    /\ i + Len(kw) <= Len(line)
    /\ SubSeq(line, i, i + Len(kw) - 1) = kw

\* `i + n + 1 <= line.len() && &line[i..i+n] == kw && line[i+n] == b' '`
KeywordAt(line, i, kw) ==
    /\ i + Len(kw) <= Len(line)
    /\ SubSeq(line, i, i + Len(kw) - 1) = kw
    /\ line[i + Len(kw)] = " "

TypeDefinition(kind, name, file_path, line_num) ==
    [type_kind |-> kind, name |-> name, file_path |-> file_path, line_number |-> line_num]

\* files.rs:174.  A keyword whose identifier is rejected leaves i advanced
\* past the keyword and falls through to the next keyword test.
extract_definition_fast(line, file_path, line_num) ==
    LET i0 == SkipBlanks(line, 1)
        pubHere == i0 + 2 <= Len(line) /\ SubSeq(line, i0, i0 + 2) = KwPub
        is_pub == pubHere /\ i0 + 3 <= Len(line) /\ IsBlank(line[i0 + 3])
        i1 == IF is_pub THEN SkipBlanks(line, i0 + 3) ELSE i0
        sHit == KeywordAt(line, i1, KwStruct)
        sName == IF sHit THEN extract_identifier(SubSeq(line, i1 + 7, Len(line))) ELSE None
        i2 == IF sHit THEN i1 + 7 ELSE i1
        eHit == KeywordAt(line, i2, KwEnum)
        eName == IF eHit THEN extract_identifier(SubSeq(line, i2 + 5, Len(line))) ELSE None
        i3 == IF eHit THEN i2 + 5 ELSE i2
        fHit == KeywordAt(line, i3, KwFn)
        fName == IF fHit THEN extract_identifier(SubSeq(line, i3 + 3, Len(line))) ELSE None
    IN  IF sName # None THEN Some(TypeDefinition("Struct", sName[1], file_path, line_num))
        ELSE IF eName # None THEN Some(TypeDefinition("Enum", eName[1], file_path, line_num))
        ELSE IF fName # None
             THEN Some(TypeDefinition(IF is_pub THEN "PubFunction" ELSE "Function",
                                      fName[1], file_path, line_num))
        ELSE None

\* The locals of scan_with_bytes on entry (files.rs:122-124).
ScanStart == [i |-> 1, line_num |-> 1, definitions |-> << >>, returned |-> FALSE]

IsCommentOrEmpty(line) ==
    line = << >> \/ StartsWith(line, << "/", "/" >>) \/ StartsWith(line, << "/", "*" >>)

\* A variant of ScanStep that counts only the lines it hands to
\* extract_definition_fast.
ScanStepCountsCodeLines(bs, file_path, st) ==
    LET start == SkipBlanks(bs, st.i)
        eol   == FindNewline(bs, start)
        line  == SubSeq(bs, start, eol - 1)
        next  == IF eol <= Len(bs) THEN eol + 1 ELSE eol
        def   == extract_definition_fast(line, file_path, st.line_num)
        defs  == st.definitions \o def
    IN  IF st.i > Len(bs) \/ start > Len(bs)
        THEN [st EXCEPT !.returned = TRUE]
        ELSE IF IsCommentOrEmpty(line)
        THEN [st EXCEPT !.i = next]
        ELSE IF def # None /\ Len(defs) > MaxDefinitions
        THEN [st EXCEPT !.definitions = defs, !.returned = TRUE]
        ELSE [st EXCEPT !.i = next, !.line_num = st.line_num + 1, !.definitions = defs]

\* One iteration of the `while i < bytes.len()` loop of scan_with_bytes
\* (files.rs:126-168), or its exit.
ScanStep(bs, file_path, st) ==
    LET start == SkipBlanks(bs, st.i)
        eol   == FindNewline(bs, start)
        line  == SubSeq(bs, start, eol - 1)
        next  == IF eol <= Len(bs) THEN eol + 1 ELSE eol
        def   == extract_definition_fast(line, file_path, st.line_num)
        defs  == st.definitions \o def
    IN  IF st.i > Len(bs) \/ start > Len(bs)
        THEN [st EXCEPT !.returned = TRUE]
        ELSE IF IsCommentOrEmpty(line)
        THEN [st EXCEPT !.i = next, !.line_num = st.line_num + 1]
        ELSE IF def # None /\ Len(defs) > MaxDefinitions
        THEN [st EXCEPT !.definitions = defs, !.returned = TRUE]
        ELSE [st EXCEPT !.i = next, !.line_num = st.line_num + 1, !.definitions = defs]

RECURSIVE ScanLoop(_, _, _)
ScanLoop(bs, file_path, st) ==
    IF st.returned THEN st.definitions ELSE ScanLoop(bs, file_path, ScanStep(bs, file_path, st))

\* files.rs:121
scan_with_bytes(bs, file_path) == ScanLoop(bs, file_path, ScanStart)

(***************************************************************************)
(* Parsing one file: scan_with_bytes stepped one loop iteration at a time  *)
(* over bounded file contents.                                             *)
(***************************************************************************)
MaxLines == 2

LnPubStructFoo == << "p","u","b"," ","s","t","r","u","c","t"," ","F","o","o"," ","{" >>
LnEnumBar == << "e","n","u","m"," ","B","a","r"," ","{" >>
LnFnBaz == << "f","n"," ","b","a","z","(" >>
LnPubFnQux == << "p","u","b"," ","f","n"," ","q","u","x","(" >>
LnCommentedStruct == << "/","/"," ","s","t","r","u","c","t"," ","F","o","o"," ","{" >>
LnBlockCommentFn == << "/","*"," ","f","n"," ","b","a","z","(" >>
LnStructure == << "s","t","r","u","c","t","u","r","e"," ","F","o","o" >>
LnEnumerate == << "e","n","u","m","e","r","a","t","e"," ","x" >>
LnFnord == << "f","n","o","r","d"," ","y" >>
LnStructTabFoo == << "s","t","r","u","c","t","\t","F","o","o" >>
LnPubCrateStruct == << "p","u","b","(","c","r","a","t","e",")"," ","s","t","r","u","c","t"," ","F","o","o"," ","{" >>
LnFnHelper == << "f","n"," ","_","h","e","l","p","e","r","(" >>
LnStructDigit == << "s","t","r","u","c","t"," ","9","F","o","o" >>
LnLet == << "l","e","t"," ","x",";" >>
LnEmpty == << >>
LnFnA == << "f","n"," ","a","(" >>

Bodies == { LnPubStructFoo, LnEnumBar, LnFnBaz, LnPubFnQux, LnCommentedStruct,
            LnBlockCommentFn, LnStructure, LnEnumerate, LnFnord, LnStructTabFoo,
            LnPubCrateStruct, LnFnHelper, LnStructDigit, LnLet, LnEmpty }
Indents == { << >>, << " ", "\t" >> }
Lines == { ind \o b : ind \in Indents, b \in Bodies }

RECURSIVE JoinLines(_)
JoinLines(ls) ==
    IF ls = << >> THEN << >>
    ELSE IF Len(ls) = 1 THEN ls[1]
    ELSE ls[1] \o << "\n" >> \o JoinLines(Tail(ls))

SeqsUpTo(S, n) == UNION { [1..k -> S] : k \in 0..n }

\* Files long enough to reach the per-file cap: n one-line functions, then a
\* reference line.
BulkContent(n) == JoinLines([k \in 1..n |-> LnFnA] \o << LnPubStructFoo >>)

FileContents ==
    { JoinLines(ls) : ls \in SeqsUpTo(Lines, MaxLines) }
        \cup { BulkContent(n) : n \in {MaxDefinitions - 1, MaxDefinitions, MaxDefinitions + 1} }

ParsePath == << "src", "lib.rs" >>

ParseIdle == bytes = << >> /\ scan = ScanStart

\* One iteration of the scanning loop.
ParseLine ==
    /\ ~scan.returned
    /\ scan' = ScanStep(bytes, ParsePath, scan)
    /\ UNCHANGED bytes
    /\ UNCHANGED << walkVars, queryVars, searchVars, pluginVars >>

(***************************************************************************)
(* DirectoryScanner: get_all_files (files.rs:22-103)                       *)
(*                                                                         *)
(* A path is the sequence of its components.  The file system is the       *)
(* environment: what fs::read_dir returns for a directory is chosen when   *)
(* the directory is read, and read_log remembers the choice.               *)
(***************************************************************************)
MaxFiles == 1000

\* files.rs:288
IgnoredNames ==
    { "node_modules", "target", ".git", ".svn", ".hg", "build", "dist", "out",
      ".next", ".nuxt", "__pycache__", ".pytest_cache", ".mypy_cache", "vendor",
      "deps", "_build", ".gradle", "bin", "obj", ".vs", ".vscode", ".idea",
      "coverage", ".nyc_output", "snapshots" }

\* A variant of should_ignore whose list lacks "target".
should_ignore_without_target(name) == name \in IgnoredNames \ { "target" }

should_ignore(name) == name \in IgnoredNames

\* main.rs:364 scans "/host".
RootDir == << "host" >>

\* A directory entry as the loop sees it: `ok` is whether the iterator yielded
\* Ok(entry), `utf8` whether file_name().to_str() is Some, `kind` what
\* is_file()/is_dir() answer.
FileEntry(name) == [ok |-> TRUE, utf8 |-> TRUE, name |-> name, kind |-> "file"]
DirEntry(name) == [ok |-> TRUE, utf8 |-> TRUE, name |-> name, kind |-> "dir"]
OtherEntry(name) == [ok |-> TRUE, utf8 |-> TRUE, name |-> name, kind |-> "other"]
ErrEntry == [ok |-> FALSE, utf8 |-> TRUE, name |-> "?", kind |-> "file"]
NonUtf8Entry == [ok |-> TRUE, utf8 |-> FALSE, name |-> "0xFF", kind |-> "file"]

WideFiles(n) == [k \in 1..n |-> FileEntry("f" \o ToString(k))]
WideDirs(n) == [k \in 1..n |-> DirEntry("e" \o ToString(k))]

\* The directory listings the environment may answer with: a few entries of
\* every sort, followed in the wide listings by many plain files.
ListingHead(id) ==
    CASE id = "empty" -> << >>
      [] id = "app"   -> << FileEntry("main.rs"), DirEntry("src"), DirEntry("target"),
                            FileEntry("notes.txt") >>
      [] id = "mix"   -> << DirEntry(".git"), FileEntry("mod.rs"), DirEntry("lib"),
                            FileEntry("build"), DirEntry("node_modules") >>
      [] id = "odd"   -> << ErrEntry, NonUtf8Entry, OtherEntry("sock"), FileEntry("big.rs"),
                            FileEntry("locked.rs") >>
      [] id = "two"   -> << DirEntry("src"), DirEntry("lib"), FileEntry("mod.rs") >>
      [] id = "half"  -> << DirEntry("src"), DirEntry("out") >>
      [] id = "exact" -> << DirEntry("lib") >>
      [] id = "over"  -> << >>
      [] id = "hollow" -> << >>

ListingWidth(id) ==
    CASE id = "half"  -> MaxFiles - 400
      [] id = "exact" -> MaxFiles
      [] id = "over"  -> MaxFiles + 1
      [] OTHER -> 0

\* A hollow directory holds more sub-directories than the cap on files, and
\* no file.
ListingDirs(id) == IF id = "hollow" THEN MaxFiles + 1 ELSE 0

Listing(id) == ListingHead(id) \o WideFiles(ListingWidth(id)) \o WideDirs(ListingDirs(id))

SmallListings == { "empty", "app", "mix", "odd", "two" }
WideListings == { "half", "exact", "over" }

\* Bounds of the trees explored: directories that have content, and wide
\* directories among them.
MaxReads == 3
MaxWide == 2

WideRead == { k \in 1..Len(read_log) : read_log[k].listing \in WideListings }

\* What fs::read_dir may answer for the next directory: Err, or a listing.
\* The root may be hollow, and the sub-directories of a hollow root are empty.
ReadDirAnswers ==
    IF read_log # << >> /\ read_log[1].listing = "hollow" THEN { "empty" }
    ELSE { "err", "empty" }
            \cup (IF Len(read_log) < MaxReads THEN SmallListings ELSE {})
            \cup (IF Len(read_log) < MaxReads /\ Cardinality(WideRead) < MaxWide
                  THEN WideListings ELSE {})
            \cup (IF read_log = << >> THEN { "hollow" } ELSE {})

\* files.rs:60-68: strip the "/host/" mount prefix.
clean_path(path) ==
    IF Len(path) >= 2 /\ path[1] = "host" THEN Tail(path) ELSE path

RsNames == { "main.rs", "mod.rs", "big.rs", "locked.rs" }

\* Path::extension of the paths of the model.
extension(path) ==
    IF path # << >> /\ path[Len(path)] \in RsNames THEN Some("rs") ELSE None

\* fs::read of PathBuf::from("/host").join(file_path) (files.rs:107): the
\* content is a function of the file's name.
FsRead(file_path) ==
    LET name == file_path[Len(file_path)]
        content == CASE name = "main.rs" -> JoinLines(<< LnPubStructFoo, LnEmpty, LnFnBaz >>)
                     [] name = "mod.rs" -> JoinLines(<< LnEnumBar >>)
                     [] name = "big.rs" -> JoinLines(<< LnPubStructFoo >>)
                     [] OTHER -> << >>
    IN  [ok |-> name # "locked.rs",
         len |-> IF name = "big.rs" THEN MaxFileSize + 1 ELSE Len(content),
         bytes |-> content]

\* A variant of scan_rust_file_fast without the size guard.
scan_rust_file_fast_any_size(file_path) ==
    LET r == FsRead(file_path)
    IN  IF ~r.ok THEN << >> ELSE scan_with_bytes(r.bytes, file_path)

\* files.rs:105
scan_rust_file_fast(file_path) ==
    LET r == FsRead(file_path)
    IN  IF ~r.ok THEN << >>
        ELSE IF r.len > MaxFileSize THEN << >>
        ELSE scan_with_bytes(r.bytes, file_path)

Range(f) == { f[x] : x \in DOMAIN f }

\* files.rs:80-102: the map built from the discovered files.
BuildMap(fs) ==
    [ p \in Range(fs) |->
        IF extension(p) = Some("rs") THEN scan_rust_file_fast(p) ELSE << >> ]

WalkIdle ==
    /\ queue = << >> /\ files = << >> /\ entries = << >> /\ dirs_in_level = << >>
    /\ read_log = << >> /\ result = << >> /\ scan_pc = "idle"

\* files.rs:23-25
InitWalk ==
    /\ queue = << RootDir >>
    /\ files = << >>
    /\ entries = << >>
    /\ dirs_in_level = << >>
    /\ read_log = << >>
    /\ result = << >>
    /\ scan_pc = "pop"
    /\ ParseIdle
    /\ QueryIdle
    /\ SearchIdle
    /\ PluginIdle

\* `while let Some(current_dir) = queue.pop_front()` with the cap test and the
\* read_dir call (files.rs:27-37).
PopDir ==
    /\ scan_pc = "pop"
    /\ queue # << >>
    /\ IF Len(files) >= MaxFiles
       THEN /\ queue' = Tail(queue)
            /\ scan_pc' = "build"
            /\ UNCHANGED << entries, dirs_in_level, read_log >>
       ELSE \E a \in ReadDirAnswers :
            /\ queue' = Tail(queue)
            /\ read_log' = Append(read_log, [dir |-> Head(queue), listing |-> a,
                                                found |-> Len(files)])
            /\ IF a = "err"
               THEN UNCHANGED << entries, dirs_in_level, scan_pc >>
               ELSE /\ entries' = Listing(a)
                    /\ dirs_in_level' = << >>
                    /\ scan_pc' = "entries"
    /\ UNCHANGED << files, result >>
    /\ UNCHANGED << parseVars, queryVars, searchVars, pluginVars >>

\* The queue is empty: the loop ends (files.rs:27).
QueueEmpty ==
    /\ scan_pc = "pop"
    /\ queue = << >>
    /\ scan_pc' = "build"
    /\ UNCHANGED << queue, files, entries, dirs_in_level, read_log, result >>
    /\ UNCHANGED << parseVars, queryVars, searchVars, pluginVars >>

CurrentDir == read_log[Len(read_log)].dir

\* A variant of EntryEffect in which an entry that cannot be read discards
\* what the traversal has found.
EntryEffectFailing(e, fs, ds) ==
    LET path == Append(CurrentDir, e.name)
    IN  IF ~e.ok THEN << << >>, << >> >>
        ELSE IF ~e.utf8 \/ should_ignore(e.name) THEN << fs, ds >>
        ELSE IF e.kind = "file" THEN << Append(fs, clean_path(path)), ds >>
        ELSE IF e.kind = "dir" THEN << fs, Append(ds, path) >>
        ELSE << fs, ds >>

\* The effect of one iteration of `for entry in entries` on files and
\* dirs_in_level (files.rs:44-72).
EntryEffect(e, fs, ds) ==
    LET path == Append(CurrentDir, e.name)
    IN  IF ~e.ok \/ ~e.utf8 \/ should_ignore(e.name) THEN << fs, ds >>
        ELSE IF e.kind = "file" THEN << Append(fs, clean_path(path)), ds >>
        ELSE IF e.kind = "dir" THEN << fs, Append(ds, path) >>
        ELSE << fs, ds >>

\* A variant of EntryLoopStops without the per-entry cap test.
EntryLoopNeverStops(fs) == FALSE

\* Whether the entry loop stops before looking at the next entry (files.rs:40).
EntryLoopStops(fs) == Len(fs) >= MaxFiles

\* One iteration of `for entry in entries` (files.rs:39-73).
NextEntry ==
    /\ scan_pc = "entries"
    /\ entries # << >>
    /\ ~EntryLoopStops(files)
    /\ LET eff == EntryEffect(Head(entries), files, dirs_in_level)
       IN  /\ files' = eff[1]
           /\ dirs_in_level' = eff[2]
    /\ entries' = Tail(entries)
    /\ UNCHANGED << queue, read_log, result, scan_pc >>
    /\ UNCHANGED << parseVars, queryVars, searchVars, pluginVars >>

\* A variant of EndOfDir that puts the sub-directories found at the front of
\* the queue.
EndOfDirDepthFirst ==
    /\ scan_pc = "entries"
    /\ entries = << >> \/ EntryLoopStops(files)
    /\ queue' = dirs_in_level \o queue
    /\ entries' = << >>
    /\ dirs_in_level' = << >>
    /\ scan_pc' = "pop"
    /\ UNCHANGED << files, read_log, result >>
    /\ UNCHANGED << parseVars, queryVars, searchVars, pluginVars >>

\* The entry loop is over, by exhaustion or by the cap: the sub-directories
\* found are queued (files.rs:75-77).
EndOfDir ==
    /\ scan_pc = "entries"
    /\ entries = << >> \/ EntryLoopStops(files)
    /\ queue' = queue \o dirs_in_level
    /\ entries' = << >>
    /\ dirs_in_level' = << >>
    /\ scan_pc' = "pop"
    /\ UNCHANGED << files, read_log, result >>
    /\ UNCHANGED << parseVars, queryVars, searchVars, pluginVars >>

\* files.rs:80-102
BuildResult ==
    /\ scan_pc = "build"
    /\ result' = BuildMap(files)
    /\ scan_pc' = "done"
    /\ UNCHANGED << queue, files, entries, dirs_in_level, read_log >>
    /\ UNCHANGED << parseVars, queryVars, searchVars, pluginVars >>

NextWalk == PopDir \/ QueueEmpty \/ NextEntry \/ EndOfDir \/ BuildResult

(***************************************************************************)
(* Query mode and displayed results: main.rs:45-80, search_state.rs        *)
(***************************************************************************)
UpperE == "U+00C9"

\* char::to_lowercase on the characters of the model.
LowerOf ==
    [ c \in Upper |->
        CASE c = "A" -> "a" [] c = "B" -> "b" [] c = "C" -> "c" [] c = "D" -> "d"
          [] c = "E" -> "e" [] c = "F" -> "f" [] c = "G" -> "g" [] c = "H" -> "h"
          [] c = "I" -> "i" [] c = "J" -> "j" [] c = "K" -> "k" [] c = "L" -> "l"
          [] c = "M" -> "m" [] c = "N" -> "n" [] c = "O" -> "o" [] c = "P" -> "p"
          [] c = "Q" -> "q" [] c = "R" -> "r" [] c = "S" -> "s" [] c = "T" -> "t"
          [] c = "U" -> "u" [] c = "V" -> "v" [] c = "W" -> "w" [] c = "X" -> "x"
          [] c = "Y" -> "y" [] c = "Z" -> "z" ]

char_to_lowercase(c) ==
    IF c \in Upper THEN LowerOf[c] ELSE IF c = UpperE THEN CharEAcute ELSE c

\* str::to_lowercase (main.rs:63)
to_lowercase(str) == [ k \in DOMAIN str |-> char_to_lowercase(str[k]) ]

PrefixStruct == KwStruct \o << " " >>
PrefixEnum == KwEnum \o << " " >>
PrefixFn == KwFn \o << " " >>

\* str::strip_prefix
strip_prefix(str, p) ==
    IF StartsWith(str, p) THEN Some(SubSeq(str, Len(p) + 1, Len(str))) ELSE None

\* `&search_term[n..]`: the prefixes are ASCII, one byte per character.
SliceFrom(str, n) == SubSeq(str, n + 1, Len(str))

RustAssetSearchMode(kind, rest) == [kind |-> kind, rest |-> rest]

\* A variant of parse_rust_asset_search whose case-insensitive branch keeps the
\* remainder of the lowercased probe.
parse_rust_asset_search_lowered(term) ==
    LET lower == to_lowercase(term)
    IN  IF strip_prefix(lower, PrefixStruct) # None
        THEN Some(RustAssetSearchMode("Struct", strip_prefix(lower, PrefixStruct)[1]))
        ELSE IF strip_prefix(lower, PrefixEnum) # None
        THEN Some(RustAssetSearchMode("Enum", strip_prefix(lower, PrefixEnum)[1]))
        ELSE IF strip_prefix(lower, PrefixFn) # None
        THEN Some(RustAssetSearchMode("Function", strip_prefix(lower, PrefixFn)[1]))
        ELSE None

\* main.rs:52
parse_rust_asset_search(term) ==
    LET lower == to_lowercase(term)
    IN  IF strip_prefix(term, PrefixStruct) # None
        THEN Some(RustAssetSearchMode("Struct", strip_prefix(term, PrefixStruct)[1]))
        ELSE IF strip_prefix(term, PrefixEnum) # None
        THEN Some(RustAssetSearchMode("Enum", strip_prefix(term, PrefixEnum)[1]))
        ELSE IF strip_prefix(term, PrefixFn) # None
        THEN Some(RustAssetSearchMode("Function", strip_prefix(term, PrefixFn)[1]))
        ELSE IF strip_prefix(lower, PrefixStruct) # None
        THEN Some(RustAssetSearchMode("Struct", SliceFrom(term, 7)))
        ELSE IF strip_prefix(lower, PrefixEnum) # None
        THEN Some(RustAssetSearchMode("Enum", SliceFrom(term, 5)))
        ELSE IF strip_prefix(lower, PrefixFn) # None
        THEN Some(RustAssetSearchMode("Function", SliceFrom(term, 3)))
        ELSE None

\* search.rs:15-21, 8-13
PaneItem(id, title) == [tag |-> "Pane", id |-> id, title |-> title]
FileItem(path) == [tag |-> "File", path |-> path]
RustAssetItem(def) == [tag |-> "RustAsset", def |-> def]
SearchResult(item, score, indices) == [item |-> item, score |-> score, indices |-> indices]

\* search_state.rs:58, 63
is_rust_asset_search(term) == parse_rust_asset_search(term) # None
get_rust_asset_search_mode(term) == parse_rust_asset_search(term)

\* search_state.rs:45
get_display_results(stored) ==
    LET Keep(r) == r.item.tag \in {"Pane", "File"}
    IN  SelectSeq(stored, Keep)

\* A variant of get_rust_asset_display_results that keeps every symbol.
get_rust_asset_display_results_any_kind(term, stored) ==
    LET Keep(r) == r.item.tag = "RustAsset"
    IN  IF get_rust_asset_search_mode(term) # None THEN SelectSeq(stored, Keep) ELSE << >>

\* search_state.rs:68
get_rust_asset_display_results(term, stored) ==
    LET m == get_rust_asset_search_mode(term)
        Keep(r) ==
            IF r.item.tag = "RustAsset"
            THEN CASE m[1].kind = "Struct" -> r.item.def.type_kind = "Struct"
                   [] m[1].kind = "Enum" -> r.item.def.type_kind = "Enum"
                   [] m[1].kind = "Function" -> r.item.def.type_kind = "Function"
            ELSE FALSE
    IN  IF m # None THEN SelectSeq(stored, Keep) ELSE << >>

\* search_state.rs:105
get_current_display_results(term, stored) ==
    IF is_rust_asset_search(term)
    THEN get_rust_asset_display_results(term, stored)
    ELSE get_display_results(stored)

\* The queries tried: a head in several casings, a separator, a remainder,
\* with or without a leading space.
QueryHeads ==
    { KwStruct, << "S","T","R","U","C","T" >>, << "S","t","r","u","c","t" >>,
      << "s","t","R","u","c","T" >>, KwEnum, << "E","N","U","M" >>, << "E","n","u","m" >>,
      KwFn, << "F","N" >>, << "F","n" >>, << "f","N" >>,
      << "s","t","r","u","c","t","u","r","e" >>, << "e","n","u","m","s" >>,
      << "f","n","o","r","d" >>, << "f","o","o" >>, << >> }
QuerySeparators == { << >>, << " " >>, << "\t" >> }
QueryLeads == { << >>, << " " >> }
QueryRests == { << >>, << "F","o","o" >>, << "f","O" >>, << " ","F" >>, << UpperE >> }
Queries ==
    { l \o h \o sp \o r : l \in QueryLeads, h \in QueryHeads, sp \in QuerySeparators,
                          r \in QueryRests }

\* The stored result lists tried: any list of at most MaxResults results.
MaxResults == 2
AssetPath == << "src", "lib.rs" >>
StoredItems ==
    { PaneItem(1, "vim"),
      FileItem(<< "src", "main.rs" >>),
      RustAssetItem(TypeDefinition("Struct", << "F","o","o" >>, AssetPath, 3)),
      RustAssetItem(TypeDefinition("Enum", << "B","a","r" >>, AssetPath, 7)),
      RustAssetItem(TypeDefinition("Function", << "b","a","z" >>, AssetPath, 9)),
      RustAssetItem(TypeDefinition("PubFunction", << "q","u","x" >>, AssetPath, 12)) }
StoredLists == SeqsUpTo({ SearchResult(it, 100, << >>) : it \in StoredItems }, MaxResults)

\* get_rust_asset_search_mode() on the current term (search_state.rs:63).
DetectMode ==
    /\ query_pc = "start"
    /\ mode' = get_rust_asset_search_mode(search_term)
    /\ query_pc' = "mode"
    /\ UNCHANGED << search_term, files_panes_results, display >>
    /\ UNCHANGED << parseVars, walkVars, searchVars, pluginVars >>

\* get_current_display_results() on the current state (search_state.rs:105).
ShowResults ==
    /\ query_pc = "mode"
    /\ display' = get_current_display_results(search_term, files_panes_results)
    /\ query_pc' = "shown"
    /\ UNCHANGED << search_term, files_panes_results, mode >>
    /\ UNCHANGED << parseVars, walkVars, searchVars, pluginVars >>

(***************************************************************************)
(* The search engine: search.rs:90-309                                     *)
(***************************************************************************)
PaneBrowseScore == 1000
AssetBrowseScore == 500
FileBrowseScore == 100
BrowseFileCap == 50
CwdCommandScore == 1000
OtherCommandScore == 500
BrowseCommandCap == 100
ContiguousBoost == 10
\* Variants of the two caps below that keep one entry more.
FileMatchCapLoose == 3 + 1
HistoryCapLoose == 50 + 1
FileMatchCap == 3
DisplayedFilesCap == 3
HistoryCap == 50

\* search.rs:16-21
ShellCommandItem(shell, command, folders) ==
    [tag |-> "ShellCommand", shell |-> shell, command |-> command, folders |-> folders]

\* read_shell_histories.rs:15
DeduplicatedCommand(command, folders, latest_timestamp) ==
    [command |-> command, folders |-> folders, latest_timestamp |-> latest_timestamp]

\* pane.rs:4
PaneMetadata(id, title) == [id |-> id, title |-> title]

\* String::from_iter over the characters of a name.
RECURSIVE Str(_)
Str(chars) == IF chars = << >> THEN "" ELSE chars[1] \o Str(Tail(chars))

\* Path::to_string_lossy on a path of valid components: joined by "/".
RECURSIVE to_string_lossy(_)
to_string_lossy(path) ==
    IF path = << >> THEN ""
    ELSE IF Len(path) = 1 THEN path[1]
    ELSE path[1] \o "/" \o to_string_lossy(Tail(path))

\* Vec::truncate
truncate(seq, n) == SubSeq(seq, 1, IF Len(seq) < n THEN Len(seq) ELSE n)

\* slice::sort_by, a stable sort. `less` holds the pairs of positions << j, i >>
\* for which the comparator answers Less on (seq[j], seq[i]); an element is
\* placed after those that compare before it and after the equal ones that
\* preceded it.
sort_by(seq, less) ==
    LET n == Len(seq)
        items == SubSeq(seq, 1, n)
        rank == SubSeq([ i \in 1..n |->
                    1 + Cardinality({ j \in 1..n :
                            /\ j # i
                            /\ \/ << j, i >> \in less
                               \/ << i, j >> \notin less /\ j < i }) ], 1, n)
    IN  [ k \in 1..n |-> items[CHOOSE i \in 1..n : rank[i] = k] ]

\* A variant of ScoreBefore that never answers Less: the sort keeps the order
\* it is given.
ScoreBeforeNever(a, b) == FALSE

\* |a, b| b.score.cmp(&a.score) answers Less
ScoreBefore(a, b) == a.score > b.score

\* sort_by(|a, b| b.score.cmp(&a.score))
sort_by_score(seq) ==
    LET items == SubSeq(seq, 1, Len(seq))
    IN  sort_by(items, { p \in (DOMAIN items) \X (DOMAIN items) :
                            ScoreBefore(items[p[1]], items[p[2]]) })

\* i64::saturating_mul; the scores of the model stay far inside the i64 range.
saturating_mul(a, b) == a * b

\* Names and titles of the world, character by character.
NameARs == << "a", ".", "r", "s" >>
NameAbTxt == << "a", "b", ".", "t", "x", "t" >>
NameNRs == << "n", ".", "r", "s" >>
NameNabMd == << "n", "a", "b", ".", "m", "d" >>
SymbolAb == << "A", "b" >>
SymbolBa == << "b", "a" >>
SymbolNb == << "n", "b" >>
TitleVimAb == << "v", "i", "m", " ", "a", "b" >>
TitleVimAxb == << "v", "i", "m", " ", "a", "x", "b" >>
TitleShell == << "s", "h" >>
WorldTexts ==
    { NameARs, NameAbTxt, NameNRs, NameNabMd, SymbolAb, SymbolBa, SymbolNb,
      TitleVimAb, TitleVimAxb, TitleShell }
CharsOf(text) == CHOOSE cs \in WorldTexts : Str(cs) = text

(***************************************************************************)
(* SkimMatcherV2::fuzzy_indices, as far as the plugin relies on it: a      *)
(* function of text and pattern that matches the pattern as a              *)
(* case-insensitive subsequence, leftmost first.                           *)
(***************************************************************************)
\* The places where the pattern occurs in the text as a subsequence.
Occurrences(text, pattern) ==
    { f \in [ DOMAIN pattern -> DOMAIN text ] :
        /\ \A i \in DOMAIN pattern :
              char_to_lowercase(text[f[i]]) = char_to_lowercase(pattern[i])
        /\ \A i \in DOMAIN pattern : i > 1 => f[i - 1] < f[i] }
\* An occurrence is better the earlier it starts and then the shorter it spans.
Gap(f) == IF DOMAIN f = {} THEN 0 ELSE f[Len(f)] - f[1] + 1 - Len(f)
SkimScore(f) == IF DOMAIN f = {} THEN 0 ELSE 16 * Len(f) - Gap(f)
skim_fuzzy_indices(text, pattern) ==
    LET found == Occurrences(text, pattern)
        leftmost == { f \in found : \A g \in found : f[1] <= g[1] }
        best == CHOOSE f \in leftmost : \A g \in leftmost : Gap(f) <= Gap(g)
    IN  IF pattern = << >> THEN Some([score |-> 0, indices |-> << >>])
        ELSE IF found = {} THEN None
        ELSE Some([score |-> SkimScore(best),
                   indices |-> [ i \in DOMAIN pattern |-> best[i] - 1 ]])

\* The queries that are typed into the plugin, key by key, and the patterns
\* the matcher can be given for them.
TypedQueries == { << "a" >>, << "f", "n", " ", "b" >> }
SkimPatterns == UNION { { SubSeq(q, i, j) : i \in 1..(Len(q) + 1), j \in 0..Len(q) } : q \in TypedQueries }

\* The matcher of a plugin that runs: the library's answer for every text and
\* pattern of the world.
SkimMatcher ==
    [library |-> [ q \in { Str(cs) : cs \in WorldTexts } \X SkimPatterns |->
                     skim_fuzzy_indices(CharsOf(q[1]), q[2]) ]]

\* SkimMatcherV2::fuzzy_indices(text, term): the library's answer, taken from
\* the answers fixed per text for one call, or from the library's table.
fuzzy_indices(text, term) ==
    IF DOMAIN matcher = { "library" } THEN matcher.library[<< text, term >>]
    ELSE matcher[text]

\* search.rs:101
is_contiguous_match(indices) ==
    IF Len(indices) <= 1 THEN TRUE
    ELSE \A i \in 2..Len(indices) : indices[i] = indices[i - 1] + 1

\* A variant of get_all_files_panes_rust that lists every file.
get_all_files_panes_rust_uncapped(ps, fs, assets) ==
    [ k \in 1..Len(ps) |->
        SearchResult(PaneItem(ps[k].id, ps[k].title), PaneBrowseScore, << >>) ]
    \o [ k \in 1..Len(assets) |->
        SearchResult(RustAssetItem(assets[k]), AssetBrowseScore, << >>) ]
    \o [ k \in 1..Len(fs) |-> SearchResult(FileItem(fs[k]), FileBrowseScore, << >>) ]

\* search.rs:145
get_all_files_panes_rust(ps, fs, assets) ==
    [ k \in 1..Len(ps) |->
        SearchResult(PaneItem(ps[k].id, ps[k].title), PaneBrowseScore, << >>) ]
    \o [ k \in 1..Len(assets) |->
        SearchResult(RustAssetItem(assets[k]), AssetBrowseScore, << >>) ]
    \o [ k \in 1..(IF Len(fs) < BrowseFileCap THEN Len(fs) ELSE BrowseFileCap) |->
        SearchResult(FileItem(fs[k]), FileBrowseScore, << >>) ]

\* The names of the shells in BTreeMap key order.
ShellOrder == << "bash", "fish", "zsh" >>

\* for (shell_name, deduplicated_commands) in shell_histories { for cmd in ... }
RECURSIVE CommandsFrom(_, _)
CommandsFrom(h, order) ==
    IF order = << >> THEN << >>
    ELSE (IF order[1] \in DOMAIN h
          THEN [ k \in 1..Len(h[order[1]]) |-> [shell |-> order[1], cmd |-> h[order[1]][k]] ]
          ELSE << >>)
         \o CommandsFrom(h, Tail(order))

contains(seq, x) == \E k \in DOMAIN seq : seq[k] = x

\* search.rs:174
get_all_shell_commands(h, cwd) ==
    LET current_cwd_str == to_string_lossy(cwd)
        all == CommandsFrom(h, ShellOrder)
        results ==
            [ k \in 1..Len(all) |->
                SearchResult(
                    ShellCommandItem(all[k].shell, all[k].cmd.command, all[k].cmd.folders),
                    IF contains(all[k].cmd.folders, current_cwd_str)
                    THEN CwdCommandScore ELSE OtherCommandScore,
                    << >>) ]
    IN  truncate(sort_by_score(results), BrowseCommandCap)

\* A variant of the pane scoring of search_files_panes_rust without the boost.
PaneScoreUnboosted(score, indices) == score

\* search.rs:213-217
PaneScore(score, indices) ==
    IF is_contiguous_match(indices) THEN saturating_mul(score, ContiguousBoost) ELSE score

\* search.rs:201
search_files_panes_rust(term, ps, fs, assets) ==
    LET PaneHit(p) == fuzzy_indices(p.title, term) # None
        AssetHit(a) == fuzzy_indices(Str(a.name), term) # None
        FileHit(f) == fuzzy_indices(to_string_lossy(f), term) # None
        pane_hits == SelectSeq(ps, PaneHit)
        asset_hits == SelectSeq(assets, AssetHit)
        file_hits == SelectSeq(fs, FileHit)
        pane_matches ==
            [ k \in 1..Len(pane_hits) |->
                LET m == fuzzy_indices(pane_hits[k].title, term)[1]
                IN  SearchResult(PaneItem(pane_hits[k].id, pane_hits[k].title),
                                 PaneScore(m.score, m.indices), m.indices) ]
        asset_matches ==
            [ k \in 1..Len(asset_hits) |->
                LET m == fuzzy_indices(Str(asset_hits[k].name), term)[1]
                IN  SearchResult(RustAssetItem(asset_hits[k]), m.score, m.indices) ]
        file_matches ==
            [ k \in 1..Len(file_hits) |->
                LET m == fuzzy_indices(to_string_lossy(file_hits[k]), term)[1]
                IN  SearchResult(FileItem(file_hits[k]), m.score, m.indices) ]
        top_files == truncate(sort_by_score(file_matches), FileMatchCap)
    IN  sort_by_score(pane_matches \o asset_matches \o top_files)

\* search.rs:296-308: the comparator answers Less, i.e. a sorts before b.
ShellMatchBefore(a, b) ==
    \/ a.result.score > b.result.score
    \/ /\ a.result.score = b.result.score
       /\ \/ b.ts # None /\ a.ts # None /\ b.ts[1] < a.ts[1]
          \/ b.ts # None /\ a.ts = None

\* usize::saturating_sub
saturating_sub(a, b) == IF a > b THEN a - b ELSE 0

\* search.rs:311
get_displayed_files(term, fs) ==
    IF term = << >> THEN << << >>, 0 >>
    ELSE
        LET FileHit(f) == fuzzy_indices(to_string_lossy(f), term) # None
            file_hits == SelectSeq(fs, FileHit)
            file_matches ==
                [ k \in 1..Len(file_hits) |->
                    [file |-> file_hits[k],
                     score |-> fuzzy_indices(to_string_lossy(file_hits[k]), term)[1].score] ]
            sorted == sort_by_score(file_matches)
            displayed_count == Min({ Len(sorted), DisplayedFilesCap })
            displayed == [ k \in 1..displayed_count |-> sorted[k].file ]
            remaining_count == saturating_sub(Len(sorted), DisplayedFilesCap)
        IN  << displayed, remaining_count >>

\* search.rs:293
sort_shell_matches_by_score_and_recency(matches) ==
    LET items == SubSeq(matches, 1, Len(matches))
    IN  sort_by(items, { p \in (DOMAIN items) \X (DOMAIN items) :
                            ShellMatchBefore(items[p[1]], items[p[2]]) })

\* A variant of search_shell_commands_prioritized that sorts all matches as
\* one tier.
search_shell_commands_one_tier(term, h, cwd) ==
    LET all == CommandsFrom(h, ShellOrder)
        Hit(e) == fuzzy_indices(e.cmd.command, term) # None
        hits == SelectSeq(all, Hit)
        matches ==
            [ k \in 1..Len(hits) |->
                LET m == fuzzy_indices(hits[k].cmd.command, term)[1]
                IN  [result |-> SearchResult(
                                    ShellCommandItem(hits[k].shell, hits[k].cmd.command,
                                                     hits[k].cmd.folders),
                                    m.score, m.indices),
                     ts |-> hits[k].cmd.latest_timestamp] ]
        sorted == sort_shell_matches_by_score_and_recency(matches)
    IN  truncate([ k \in 1..Len(sorted) |-> sorted[k].result ], HistoryCap)

\* search.rs:249
search_shell_commands_prioritized(term, h, cwd) ==
    LET current_cwd_str == to_string_lossy(cwd)
        all == CommandsFrom(h, ShellOrder)
        Hit(e) == fuzzy_indices(e.cmd.command, term) # None
        hits == SelectSeq(all, Hit)
        matches ==
            [ k \in 1..Len(hits) |->
                LET m == fuzzy_indices(hits[k].cmd.command, term)[1]
                IN  [result |-> SearchResult(
                                    ShellCommandItem(hits[k].shell, hits[k].cmd.command,
                                                     hits[k].cmd.folders),
                                    m.score, m.indices),
                     ts |-> hits[k].cmd.latest_timestamp] ]
        IsCurrent(x) == contains(x.result.item.folders, current_cwd_str)
        IsOther(x) == ~IsCurrent(x)
        current_dir_matches ==
            sort_shell_matches_by_score_and_recency(SelectSeq(matches, IsCurrent))
        other_dir_matches ==
            sort_shell_matches_by_score_and_recency(SelectSeq(matches, IsOther))
        final_matches == current_dir_matches \o other_dir_matches
    IN  truncate([ k \in 1..Len(final_matches) |-> final_matches[k].result ], HistoryCap)

\* search.rs:24
DualSearchResults(fpr, scr) ==
    [files_panes_results |-> fpr, shell_commands_results |-> scr]

\* search.rs:114
search_dual(term, ps, fs, assets, h, cwd) ==
    IF term = << >>
    THEN DualSearchResults(get_all_files_panes_rust(ps, fs, assets),
                           get_all_shell_commands(h, cwd))
    ELSE DualSearchResults(search_files_panes_rust(term, ps, fs, assets),
                           search_shell_commands_prioritized(term, h, cwd))

\* The number of fuzzy_indices calls search_dual makes (search.rs:212,225,235,262).
MatcherCallsOf(term, ps, fs, assets, h) ==
    IF term = << >> THEN 0
    ELSE Len(ps) + Len(assets) + Len(fs) + Len(CommandsFrom(h, ShellOrder))

\* ---- The pools and matcher answers tried.
MaxCommands == 2
QueryAb == << "a", "b" >>
CwdPath == << "", "host", "proj" >>
FolderCwd == "/host/proj"
FolderTmp == "/tmp"

FixedPanes == << PaneMetadata(1, "t1"), PaneMetadata(2, "t2"), PaneMetadata(3, "t3") >>
PaneTitles == { "t1", "t2", "t3" }
FixedAssets ==
    << TypeDefinition("Struct", << "F","o","o" >>, AssetPath, 3),
       TypeDefinition("Function", << "b","a","z" >>, AssetPath, 9) >>
SmallFiles ==
    << << "src", "f1.rs" >>, << "src", "f2.rs" >>, << "src", "f3.rs" >>,
       << "src", "f4.rs" >>, << "src", "f5.rs" >> >>
BulkFiles(n) == [ k \in 1..n |-> << "bulk", "f" \o ToString(k) >> ]
BulkCommands(n, folder) ==
    [ k \in 1..n |-> DeduplicatedCommand("b" \o ToString(k), << folder >>, Some(k)) ]

Prefixes(seq) == { SubSeq(seq, 1, n) : n \in 0..Len(seq) }

\* What fuzzy_indices may answer for a two-character term: nothing, or a score
\* with two increasing positions; a contiguous match scores above zero.
Match(score, indices) == Some([score |-> score, indices |-> indices])
PaneOutcomes ==
    { None, Match(2, << 0, 1 >>), Match(30, << 3, 4 >>),
      Match(0, << 0, 2 >>), Match(2, << 0, 2 >>), Match(20, << 1, 5 >>),
      Match(30, << 0, 2 >>), Match(25, << 0, 2 >>) }
CommandOutcomes == { None, Match(5, << 0, 1 >>), Match(9, << 0, 2 >>) }
FileOutcome(text) ==
    CASE text = "src/f1.rs" -> Match(5, << 4, 6 >>)
      [] text = "src/f2.rs" -> Match(25, << 0, 1 >>)
      [] text = "src/f3.rs" -> None
      [] text = "src/f4.rs" -> Match(7, << 1, 2 >>)
      [] text = "src/f5.rs" -> Match(25, << 2, 5 >>)
      [] OTHER -> Match(5, << 0, 1 >>)
AssetOutcome(text) == IF text = "Foo" THEN Match(25, << 0, 1 >>) ELSE None

CommandTexts == { "c1", "c2", "c3" }
CommandCandidates ==
    { DeduplicatedCommand(c, f, t) :
        c \in CommandTexts,
        f \in { << FolderTmp, FolderCwd >>, << FolderTmp >> },
        t \in { None, Some(1), Some(2) } }
\* deduplicate_commands keeps one entry per command text in a shell.
DistinctCommands(seq) ==
    \A i, j \in DOMAIN seq : i # j => seq[i].command # seq[j].command
CommandLists(n) == { l \in SeqsUpTo(CommandCandidates, n) : DistinctCommands(l) }
ZshLists ==
    { << >>,
      << DeduplicatedCommand("c1", << FolderCwd >>, Some(1)) >>,
      << DeduplicatedCommand("c1", << FolderTmp >>, Some(2)) >> }

\* A BTreeMap holding the shells that have commands.
HistoryOf(bash, fish, zsh) ==
    LET lists == [ sh \in { "bash", "fish", "zsh" } |->
                     CASE sh = "bash" -> bash [] sh = "fish" -> fish [] OTHER -> zsh ]
    IN  [ sh \in { x \in { "bash", "fish", "zsh" } : lists[x] # << >> } |-> lists[sh] ]

SearchInput(term, ps, fs, assets, h, pm, cm) ==
    [term |-> term, panes |-> ps, files |-> fs, assets |-> assets, hist |-> h,
     pane_answers |-> pm, command_answers |-> cm]

NoAnswers(S) == [ t \in S |-> None ]

\* The empty query over pools of several sizes.
BrowsePanes == Prefixes(FixedPanes)
BrowseFiles ==
    Prefixes(SubSeq(SmallFiles, 1, 2))
    \cup { BulkFiles(BrowseFileCap - 1), BulkFiles(BrowseFileCap), BulkFiles(BrowseFileCap + 1) }
BrowseAssets == Prefixes(FixedAssets)
BrowseBash == { << >>, << DeduplicatedCommand("c2", << FolderTmp >>, None) >> }
BrowseZsh == { << >>, << DeduplicatedCommand("c1", << FolderCwd >>, Some(1)) >> }
BrowseAnswers == { NoAnswers(PaneTitles), [ t \in PaneTitles |-> Match(2, << 0, 1 >>) ] }

\* A term over three sessions, whatever the matcher answers for their titles.
SessionFiles == { << >>, SmallFiles }
SessionAssets == { << >>, FixedAssets }
SessionAnswers == [ PaneTitles -> PaneOutcomes ]

\* A term over file pools holding the five files in every order.
FilePools ==
    { fs \in UNION { [ 1..n -> Range(SmallFiles) ] : n \in 0..Len(SmallFiles) } :
        \A i, j \in DOMAIN fs : i # j => fs[i] # fs[j] }

\* A term over the histories of two shells.
HistoryAnswers ==
    { [ t \in CommandTexts |-> CASE t = "c1" -> o1 [] t = "c2" -> o2 [] OTHER -> Match(5, << 0, 1 >>) ] :
        o1 \in CommandOutcomes, o2 \in CommandOutcomes \ { None } }

\* A term over a history longer than the cap.
LongFish ==
    { BulkCommands(n, d) : n \in { HistoryCap - 1, HistoryCap, HistoryCap + 1 },
                           d \in { FolderCwd, FolderTmp } }

\* The texts the pools of an input hold, and the matcher's answer for each.
TextsOf(in) ==
    { in.panes[k].title : k \in DOMAIN in.panes }
    \cup { Str(in.assets[k].name) : k \in DOMAIN in.assets }
    \cup { to_string_lossy(in.files[k]) : k \in DOMAIN in.files }
    \cup UNION { { in.hist[sh][k].command : k \in DOMAIN in.hist[sh] } : sh \in DOMAIN in.hist }
MatcherOf(in) ==
    [ t \in TextsOf(in) |->
        IF t \in PaneTitles THEN in.pane_answers[t]
        ELSE IF t \in CommandTexts THEN in.command_answers[t]
        ELSE IF t \in { Str(FixedAssets[k].name) : k \in DOMAIN FixedAssets } THEN AssetOutcome(t)
        ELSE FileOutcome(t) ]

\* One call of search_dual on the pools.
Search ==
    /\ search_pc = "call"
    /\ dual_results' = search_dual(search_term, panes, pool_files, rust_assets,
                                   shell_histories, current_cwd)
    /\ matcher_calls' = matcher_calls
                        + MatcherCallsOf(search_term, panes, pool_files, rust_assets,
                                         shell_histories)
    /\ search_pc' = "returned"
    /\ UNCHANGED << panes, pool_files, rust_assets, shell_histories, current_cwd, matcher,
                    displayed_files >>
    /\ UNCHANGED << parseVars, walkVars, queryVars, pluginVars >>

\* One call of get_displayed_files on the term and the file pool, as render
\* makes it once the results are stored.
DisplayFiles ==
    /\ search_pc = "returned"
    /\ displayed_files' = get_displayed_files(search_term, pool_files)
    /\ search_pc' = "rendered"
    /\ UNCHANGED << panes, pool_files, rust_assets, shell_histories, current_cwd, matcher,
                    dual_results, matcher_calls >>
    /\ UNCHANGED << parseVars, walkVars, queryVars, pluginVars >>

(***************************************************************************)
(* The plugin (main.rs): its world                                         *)
(***************************************************************************)
\* Folders of the host, as paths from the root.
FolderRoot == << "" >>
FolderHome == << "", "home" >>
FolderProj == << "", "home", "proj" >>
FolderNew == << "", "new" >>
Folders == { FolderRoot, FolderHome, FolderProj, FolderNew }
\* The folders that hold a .git entry.
GitFolders == { FolderProj }
\* The folders the plugin may be started in, and those the file picker may
\* answer with.
InitialCwds == { FolderProj, FolderHome }
PickedFolders == { FolderProj, FolderNew }

\* A variant of parent that finds no parent anywhere.
parent_of_nothing(p) == None
\* Path::parent
parent(p) == IF Len(p) <= 1 THEN None ELSE Some(SubSeq(p, 1, Len(p) - 1))
\* Path::join
join(base, p) == IF p # << >> /\ p[1] = "" THEN p ELSE base \o p
\* Path::display on a folder of the host, and PathBuf::from on such a string.
display_path(p) == IF p = FolderRoot THEN "/" ELSE to_string_lossy(p)
PathBuf_from(s) == CHOOSE p \in Folders : display_path(p) = s
\* Uuid::to_string; the n-th identifier drawn differs from all drawn before.
uuid_to_string(n) == "uuid-" \o ToString(n)

\* What get_all_files("/host") returns while the folder is mounted: the
\* BTreeMap as its entries in key order.
HostScan(folder) ==
    CASE folder = FolderProj ->
           << << << Str(NameARs) >>,
                 << TypeDefinition("Struct", SymbolAb, << Str(NameARs) >>, 3),
                    TypeDefinition("Function", SymbolBa, << Str(NameARs) >>, 9) >> >>,
              << << Str(NameAbTxt) >>, << >> >> >>
      [] folder = FolderNew ->
           << << << Str(NameNRs) >>,
                 << TypeDefinition("Function", SymbolNb, << Str(NameNRs) >>, 2) >> >>,
              << << Str(NameNabMd) >>, << >> >> >>
      [] OTHER -> << >>

\* What read_shell_histories() returns.
HostHistories ==
    HistoryOf(<< DeduplicatedCommand("c1", << "/home/proj" >>, Some(1)) >>, << >>, << >>)

\* The panes of a PaneUpdate: id, title and whether is_editor_pane accepts it.
PaneInfo(id, is_plugin, title, editor) ==
    [id |-> id, is_plugin |-> is_plugin, title |-> title, editor |-> editor]
InfoAb == PaneInfo(1, FALSE, Str(TitleVimAb), TRUE)
InfoAxb == PaneInfo(2, TRUE, Str(TitleVimAxb), TRUE)
InfoShell == PaneInfo(3, FALSE, Str(TitleShell), FALSE)
Manifests == { << >>, << InfoAxb, InfoShell, InfoAb >> }
\* String::cmp on the titles of the world.
TitleRank(t) == CASE t = Str(TitleShell) -> 1 [] t = Str(TitleVimAb) -> 2 [] OTHER -> 3

\* pane.rs:9
extract_editor_pane_metadata(manifest) ==
    LET IsEditor(info) == info.editor
        kept == SelectSeq(manifest, IsEditor)
        PaneId(info) == IF info.is_plugin THEN << "Plugin", info.id >>
                        ELSE << "Terminal", info.id >>
        found == [ k \in 1..Len(kept) |-> PaneMetadata(PaneId(kept[k]), kept[k].title) ]
    IN  sort_by(found, { p \in (DOMAIN found) \X (DOMAIN found) :
                           TitleRank(found[p[1]].title) < TitleRank(found[p[2]].title) })

(***************************************************************************)
(* SearchEngine::search, called at main.rs:267                             *)
(***************************************************************************)
SearchResults(fpr) == [files_panes_results |-> fpr]

\* Symbol-kind-filtered mode: only symbols of the kind, matched against the
\* remainder; an empty remainder returns all of them at a flat score.
search_rust_assets_of_kind(m, assets) ==
    LET OfKind(a) == a.type_kind = m.kind
        of_kind == SelectSeq(assets, OfKind)
        Hit(a) == fuzzy_indices(Str(a.name), m.rest) # None
        hits == SelectSeq(of_kind, Hit)
    IN  IF m.rest = << >>
        THEN [ k \in 1..Len(of_kind) |->
                 SearchResult(RustAssetItem(of_kind[k]), AssetBrowseScore, << >>) ]
        ELSE sort_by_score(
                 [ k \in 1..Len(hits) |->
                     LET r == fuzzy_indices(Str(hits[k].name), m.rest)[1]
                     IN  SearchResult(RustAssetItem(hits[k]), r.score, r.indices) ])

search(term, ps, fs, assets, h, cwd) ==
    LET m == parse_rust_asset_search(term)
    IN  IF term = << >> THEN SearchResults(get_all_files_panes_rust(ps, fs, assets))
        ELSE IF m # None THEN SearchResults(search_rust_assets_of_kind(m[1], assets))
        ELSE SearchResults(search_files_panes_rust(term, ps, fs, assets))

(***************************************************************************)
(* The plugin (main.rs): State and its handlers                            *)
(***************************************************************************)
\* What no handler of the plugin touches.
besidePlugin == << parseVars, walkVars, mode, display, query_pc,
                  dual_results, matcher_calls, displayed_files, search_pc >>

\* How many Ctrl-f presses are followed.
MaxRequests == 1

\* The terms that typing passes through.
TypedTerms == UNION { Prefixes(q) : q \in TypedQueries }
KeyChars == UNION { Range(q) : q \in TypedQueries }

\* A variant of move_selection_down that steps past the last item.
move_selection_down_past_end(selected, table1_count, table2_count) ==
    LET total_items == table1_count + table2_count
    IN  IF total_items = 0 THEN selected
        ELSE IF selected = None THEN Some(0)
        ELSE Some(selected[1] + 1)

\* A variant of move_selection_up that enters the list at its first item.
move_selection_up_from_first(selected, table1_count, table2_count) ==
    LET total_items == table1_count + table2_count
    IN  IF total_items = 0 THEN selected
        ELSE IF selected = None THEN Some(0)
        ELSE IF selected[1] > 0 THEN Some(saturating_sub(selected[1], 1))
        ELSE None

\* ui_state.rs:17
move_selection_down(selected, table1_count, table2_count) ==
    LET total_items == table1_count + table2_count
    IN  IF total_items = 0 THEN selected
        ELSE IF selected = None THEN Some(0)
        ELSE IF selected[1] + 1 < total_items THEN Some(selected[1] + 1)
        ELSE None

\* ui_state.rs:38
move_selection_up(selected, table1_count, table2_count) ==
    LET total_items == table1_count + table2_count
    IN  IF total_items = 0 THEN selected
        ELSE IF selected = None THEN Some(saturating_sub(total_items, 1))
        ELSE IF selected[1] > 0 THEN Some(saturating_sub(selected[1], 1))
        ELSE None

\* app_state.rs:50: the definitions of every file, in key order.
RECURSIVE get_rust_assets(_)
get_rust_assets(map) ==
    IF map = << >> THEN << >> ELSE map[1][2] \o get_rust_assets(Tail(map))
\* BTreeMap::keys
keys(map) == [ k \in DOMAIN map |-> map[k][1] ]

\* main.rs:38: whether /host/.git exists.
is_current_directory_git_repository == host_folder \in GitFolders

\* search_state.rs:96, 105 on the stored results.
DisplayResults == get_current_display_results(search_term, files_panes_results)
get_current_display_count == Len(DisplayResults)

\* The value of search_engine.search on the state of the plugin.
SearchNow ==
    search(search_term, panes, pool_files, get_rust_assets(rust_assets),
           shell_histories, current_cwd)

\* The host calls a handler makes.
CloseSelf == [call |-> "close_self"]
ChangeHostFolder(folder) == [call |-> "change_host_folder", folder |-> folder]
ReplacePane(own, id) ==
    [call |-> "replace_pane_with_existing_pane",
     pane_to_replace |-> << "Plugin", own >>, existing |-> id]
FileToOpen(path, line_number) == [path |-> path, line_number |-> line_number]
OpenFileInPlace(file_to_open, close_plugin) ==
    [call |-> "open_file_in_place_of_plugin", file |-> file_to_open,
     close_plugin |-> close_plugin]
PipeToFilepicker(request_id, caller_cwd) ==
    [call |-> "pipe_message_to_plugin", name |-> "filepicker",
     request_id |-> request_id, caller_cwd |-> caller_cwd]
RenamePane(own, title) == [call |-> "rename_plugin_pane", id |-> own, title |-> title]

\* A change_host_folder request as the host holds it; `picked` tells whether it
\* was made for an answer of the file picker, and is read by no handler.
ChangeRequest(folder, picked) == [folder |-> folder, picked |-> picked]

KeyEvent(key) == [type |-> "Key", key |-> key]
CharEvent(c) == [type |-> "Key", key |-> "Char", char |-> c]

\* Events, keys and messages reach the plugin once its permissions are granted.
Alive == plugin_pc = "running"

\* main.rs:265, on the term and the pools the handler has just set.
update_search_results(term, ps, fs, assets, h, cwd) ==
    /\ files_panes_results' =
           search(term, ps, fs, get_rust_assets(assets), h, cwd).files_panes_results
    /\ selected_index' =
           IF Len(get_current_display_results(term, files_panes_results')) > 0
           THEN Some(0) ELSE None

\* main.rs:355
update_host_folder_with_scan_control(new_host_folder, user_selected) ==
    LET cwd == IF new_host_folder = None THEN plugin_ids.initial_cwd ELSE new_host_folder[1]
        should_scan ==
            pool_files = << >> /\ (is_current_directory_git_repository \/ user_selected)
        files_and_rust_assets == HostScan(host_folder)
        new_files == IF should_scan THEN keys(files_and_rust_assets) ELSE pool_files
        new_assets == IF should_scan THEN files_and_rust_assets ELSE rust_assets
    IN  /\ current_cwd' = cwd
        /\ pool_files' = new_files
        /\ rust_assets' = new_assets
        /\ UNCHANGED << search_term, panes, shell_histories >>
        /\ update_search_results(search_term, panes, new_files, new_assets,
                                 shell_histories, cwd)

\* main.rs:398
request_folder_selection ==
    /\ uuid_count' = uuid_count + 1
    /\ request_ids' = Append(request_ids, uuid_to_string(uuid_count + 1))
    /\ calls' = << PipeToFilepicker(uuid_to_string(uuid_count + 1), display_path(current_cwd)) >>

\* main.rs:96
Load ==
    /\ plugin_pc = "unloaded"
    /\ plugin_pc' = "loaded"
    /\ event' = [type |-> "Load"]
    /\ calls' = << [call |-> "request_permission"], [call |-> "subscribe"] >>
    /\ initial_cwd' = Some(plugin_ids.initial_cwd)
    /\ update_host_folder_with_scan_control(None, FALSE)
    /\ UNCHANGED << matcher, request_ids, searching_for_git_repo, user_selected_directory, plugin_ids,
                    host_folder, host_queue, folder_events, uuid_count >>
    /\ UNCHANGED besidePlugin

\* main.rs:120, 373
PermissionRequestResult ==
    /\ plugin_pc = "loaded"
    /\ plugin_pc' = "running"
    /\ event' = [type |-> "PermissionRequestResult"]
    /\ searching_for_git_repo' = TRUE
    /\ host_queue' = Append(host_queue, ChangeRequest(plugin_ids.initial_cwd, FALSE))
    /\ calls' = << RenamePane(plugin_ids.plugin_id, "Grab..."),
                  ChangeHostFolder(plugin_ids.initial_cwd) >>
    /\ UNCHANGED << search_term, files_panes_results, panes, pool_files, rust_assets,
                    shell_histories, current_cwd, matcher, selected_index, request_ids,
                    initial_cwd, user_selected_directory, plugin_ids, host_folder,
                    folder_events, uuid_count >>
    /\ UNCHANGED besidePlugin

\* main.rs:128: the tabs are kept and read by no handler.
TabUpdate ==
    /\ Alive
    /\ event' = [type |-> "TabUpdate"]
    /\ calls' = << >>
    /\ UNCHANGED << search_term, files_panes_results, panes, pool_files, rust_assets,
                    shell_histories, current_cwd, matcher, selected_index, request_ids,
                    initial_cwd, searching_for_git_repo, user_selected_directory, plugin_ids,
                    host_folder, host_queue, folder_events, uuid_count, plugin_pc >>
    /\ UNCHANGED besidePlugin

\* main.rs:131.  adjust_selection_after_pane_update writes a selection that
\* update_search_results overwrites in the same handler.
PaneUpdate ==
    /\ Alive
    /\ \E manifest \in Manifests :
          /\ event' = [type |-> "PaneUpdate"]
          /\ panes' = extract_editor_pane_metadata(manifest)
          /\ update_search_results(search_term, extract_editor_pane_metadata(manifest),
                                   pool_files, rust_assets, shell_histories, current_cwd)
    /\ calls' = << >>
    /\ UNCHANGED << search_term, pool_files, rust_assets, shell_histories, current_cwd,
                    matcher >>
    /\ UNCHANGED << request_ids, initial_cwd, searching_for_git_repo, user_selected_directory,
                    plugin_ids, host_folder, host_queue, folder_events, uuid_count, plugin_pc >>
    /\ UNCHANGED besidePlugin

\* The host applies the oldest change_host_folder request: /host is mounted on
\* the folder and a HostFolderChanged event is sent.
HostAppliesChange ==
    /\ Alive
    /\ host_queue # << >>
    /\ host_folder' = Head(host_queue).folder
    /\ folder_events' = Append(folder_events, Head(host_queue))
    /\ host_queue' = Tail(host_queue)
    /\ UNCHANGED << search_term, files_panes_results, panes, pool_files, rust_assets,
                    shell_histories, current_cwd, matcher, selected_index, request_ids,
                    initial_cwd, searching_for_git_repo, user_selected_directory, plugin_ids,
                    uuid_count, event, calls, plugin_pc >>
    /\ UNCHANGED besidePlugin

\* main.rs:138, 378
HostFolderChanged ==
    /\ Alive
    /\ folder_events # << >>
    /\ folder_events' = Tail(folder_events)
    /\ LET new_host_folder == Head(folder_events).folder
       IN  /\ event' = [type |-> "HostFolderChanged", folder |-> new_host_folder]
           /\ IF initial_cwd # None
              THEN /\ initial_cwd' = None
                   /\ shell_histories' = HostHistories
                   /\ host_queue' = Append(host_queue, ChangeRequest(initial_cwd[1], FALSE))
                   /\ calls' = << ChangeHostFolder(initial_cwd[1]) >>
                   /\ UNCHANGED << search_term, files_panes_results, panes, pool_files,
                                   rust_assets, current_cwd, matcher, selected_index,
                                   request_ids, searching_for_git_repo,
                                   user_selected_directory, uuid_count >>
              ELSE IF searching_for_git_repo
              THEN IF is_current_directory_git_repository
                   THEN /\ searching_for_git_repo' = FALSE
                        /\ update_host_folder_with_scan_control(Some(new_host_folder), FALSE)
                        /\ calls' = << >>
                        /\ UNCHANGED << matcher, request_ids, initial_cwd,
                                        user_selected_directory, host_queue, uuid_count >>
                   ELSE IF parent(new_host_folder) # None
                           /\ parent(new_host_folder)[1] # new_host_folder
                   THEN /\ host_queue' = Append(host_queue,
                                               ChangeRequest(parent(new_host_folder)[1], FALSE))
                        /\ calls' = << ChangeHostFolder(parent(new_host_folder)[1]) >>
                        /\ UNCHANGED << search_term, files_panes_results, panes, pool_files,
                                        rust_assets, shell_histories, current_cwd, matcher,
                                        selected_index, request_ids, initial_cwd,
                                        searching_for_git_repo, user_selected_directory,
                                        uuid_count >>
                   ELSE /\ searching_for_git_repo' = FALSE
                        /\ request_folder_selection
                        /\ UNCHANGED << search_term, files_panes_results, panes, pool_files,
                                        rust_assets, shell_histories, current_cwd, matcher,
                                        selected_index, initial_cwd, user_selected_directory,
                                        host_queue >>
              ELSE /\ user_selected_directory' = FALSE
                   /\ update_host_folder_with_scan_control(Some(new_host_folder),
                                                           user_selected_directory)
                   /\ calls' = << >>
                   /\ UNCHANGED << matcher, request_ids, initial_cwd, searching_for_git_repo,
                                   host_queue, uuid_count >>
    /\ UNCHANGED << plugin_ids, host_folder, plugin_pc >>
    /\ UNCHANGED besidePlugin

\* What a key handler that only moves the selection or acts on it leaves alone.
keyFrame == << search_term, files_panes_results, panes, pool_files, rust_assets,
              shell_histories, current_cwd, matcher, request_ids, initial_cwd,
              searching_for_git_repo, user_selected_directory, plugin_ids, host_folder,
              host_queue, folder_events, uuid_count >>

\* main.rs:153, 287
KeyDown ==
    /\ Alive
    /\ event' = KeyEvent("Down")
    /\ calls' = << >>
    /\ selected_index' = IF get_current_display_count > 0
                         THEN move_selection_down(selected_index, get_current_display_count, 0)
                         ELSE selected_index
    /\ UNCHANGED << keyFrame, plugin_pc >>
    /\ UNCHANGED besidePlugin

\* main.rs:157, 295
KeyUp ==
    /\ Alive
    /\ event' = KeyEvent("Up")
    /\ calls' = << >>
    /\ selected_index' = IF get_current_display_count > 0
                         THEN move_selection_up(selected_index, get_current_display_count, 0)
                         ELSE selected_index
    /\ UNCHANGED << keyFrame, plugin_pc >>
    /\ UNCHANGED besidePlugin

\* A variant of execute_search_result_action that opens a symbol's file
\* without a line number.
execute_search_result_action_no_line(search_result) ==
    CASE search_result.item.tag = "Pane" ->
           << ReplacePane(plugin_ids.plugin_id, search_result.item.id) >>
      [] search_result.item.tag = "File" ->
           << OpenFileInPlace(FileToOpen(join(current_cwd, search_result.item.path), None),
                              TRUE) >>
      [] search_result.item.tag = "RustAsset" ->
           << OpenFileInPlace(FileToOpen(join(current_cwd, search_result.item.def.file_path),
                                         None),
                              TRUE) >>

\* main.rs:312
execute_search_result_action(search_result) ==
    CASE search_result.item.tag = "Pane" ->
           << ReplacePane(plugin_ids.plugin_id, search_result.item.id) >>
      [] search_result.item.tag = "File" ->
           << OpenFileInPlace(FileToOpen(join(current_cwd, search_result.item.path), None),
                              TRUE) >>
      [] search_result.item.tag = "RustAsset" ->
           << OpenFileInPlace(FileToOpen(join(current_cwd, search_result.item.def.file_path),
                                         Some(search_result.item.def.line_number)),
                              TRUE) >>

\* main.rs:303
focus_selected_item ==
    IF selected_index # None /\ selected_index[1] + 1 \in DOMAIN DisplayResults
    THEN execute_search_result_action(DisplayResults[selected_index[1] + 1])
    ELSE << >>

\* main.rs:161.  A file opened in place of the plugin closes the plugin.
KeyEnterOrTab ==
    /\ Alive
    /\ \E key \in { "Tab", "Enter" } : event' = KeyEvent(key)
    /\ calls' = focus_selected_item
    /\ plugin_pc' = IF \E k \in DOMAIN focus_selected_item :
                          focus_selected_item[k].call = "open_file_in_place_of_plugin"
                    THEN "closed" ELSE plugin_pc
    /\ UNCHANGED << keyFrame, selected_index >>
    /\ UNCHANGED besidePlugin

\* What a key handler that edits the term leaves alone.
termFrame == << panes, pool_files, rust_assets, shell_histories, current_cwd, matcher,
               request_ids,
               initial_cwd, searching_for_git_repo, user_selected_directory, plugin_ids,
               host_folder, host_queue, folder_events, uuid_count >>

\* A variant of the Backspace arm that leaves the stored results alone.
KeyBackspaceStale ==
    /\ Alive
    /\ event' = KeyEvent("Backspace")
    /\ calls' = << >>
    /\ search_term' = SubSeq(search_term, 1, saturating_sub(Len(search_term), 1))
    /\ UNCHANGED << files_panes_results, selected_index >>
    /\ UNCHANGED << termFrame, plugin_pc >>
    /\ UNCHANGED besidePlugin

\* main.rs:164
KeyChar ==
    /\ Alive
    /\ \E character \in KeyChars :
          /\ Append(search_term, character) \in TypedTerms
          /\ event' = CharEvent(character)
          /\ search_term' = Append(search_term, character)
          /\ update_search_results(Append(search_term, character), panes, pool_files,
                                   rust_assets, shell_histories, current_cwd)
    /\ calls' = << >>
    /\ UNCHANGED << termFrame, plugin_pc >>
    /\ UNCHANGED besidePlugin

\* main.rs:169; String::pop on an empty term leaves it empty.
KeyBackspace ==
    /\ Alive
    /\ event' = KeyEvent("Backspace")
    /\ calls' = << >>
    /\ search_term' = SubSeq(search_term, 1, saturating_sub(Len(search_term), 1))
    /\ UNCHANGED << termFrame, plugin_pc >>
    /\ update_search_results(SubSeq(search_term, 1, saturating_sub(Len(search_term), 1)),
                             panes, pool_files, rust_assets, shell_histories, current_cwd)
    /\ UNCHANGED besidePlugin

\* A variant of the Ctrl-c arm that closes the plugin whatever the term.
KeyCtrlCAlwaysCloses ==
    /\ Alive
    /\ event' = KeyEvent("Ctrl-c")
    /\ calls' = << CloseSelf >>
    /\ plugin_pc' = "closed"
    /\ UNCHANGED << search_term, files_panes_results, selected_index, termFrame >>
    /\ UNCHANGED besidePlugin

\* main.rs:174
KeyCtrlC ==
    /\ Alive
    /\ event' = KeyEvent("Ctrl-c")
    /\ IF search_term = << >>
       THEN /\ calls' = << CloseSelf >>
            /\ plugin_pc' = "closed"
            /\ UNCHANGED << search_term, files_panes_results, selected_index, termFrame >>
       ELSE /\ calls' = << >>
            /\ search_term' = << >>
            /\ UNCHANGED << termFrame, plugin_pc >>
            /\ update_search_results(<< >>, panes, pool_files, rust_assets,
                                     shell_histories, current_cwd)
    /\ UNCHANGED besidePlugin

\* main.rs:183
KeyCtrlF ==
    /\ Alive
    /\ uuid_count < MaxRequests
    /\ event' = KeyEvent("Ctrl-f")
    /\ uuid_count' = uuid_count + 1
    /\ request_ids' = Append(request_ids, uuid_to_string(uuid_count + 1))
    /\ calls' = << PipeToFilepicker(uuid_to_string(uuid_count + 1), display_path(current_cwd)) >>
    /\ UNCHANGED << search_term, files_panes_results, panes, pool_files, rust_assets,
                    shell_histories, current_cwd, matcher, selected_index, initial_cwd,
                    searching_for_git_repo, user_selected_directory, plugin_ids, host_folder,
                    host_queue, folder_events, plugin_pc >>
    /\ UNCHANGED besidePlugin

\* The messages that may be piped to the plugin.
PipeNames == { "filepicker_result", "other" }
PipePayloads == { None } \cup { Some(display_path(f)) : f \in PickedFolders }
PipeRequestIds == { None } \cup { Some(uuid_to_string(n)) : n \in 1..(MaxRequests + 1) }

\* Vec::iter().position
position(seq, x) ==
    LET at == { k \in DOMAIN seq : seq[k] = x }
    IN  IF at = {} THEN None ELSE Some(Min(at))
\* Vec::remove
remove(seq, k) == SubSeq(seq, 1, k - 1) \o SubSeq(seq, k + 1, Len(seq))

\* A variant of the filepicker_result arm that keeps the request id.
PipeAuthorisedKeepsId(payload, request_id) ==
    /\ UNCHANGED request_ids
    /\ user_selected_directory' = TRUE
    /\ host_queue' = Append(host_queue, ChangeRequest(PathBuf_from(payload[1]), TRUE))
    /\ calls' = << ChangeHostFolder(PathBuf_from(payload[1])) >>

\* main.rs:214-222: the arm taken for a payload and a pending request id.
PipeAuthorised(payload, request_id) ==
    /\ request_ids' = remove(request_ids, position(request_ids, request_id[1])[1])
    /\ user_selected_directory' = TRUE
    /\ host_queue' = Append(host_queue, ChangeRequest(PathBuf_from(payload[1]), TRUE))
    /\ calls' = << ChangeHostFolder(PathBuf_from(payload[1])) >>

\* main.rs:210
pipe(name, payload, request_id) ==
    /\ Alive
    /\ event' = [type |-> "Pipe"]
    /\ IF /\ name = "filepicker_result"
          /\ payload # None
          /\ request_id # None
          /\ position(request_ids, request_id[1]) # None
       THEN PipeAuthorised(payload, request_id)
       ELSE /\ calls' = << >>
            /\ UNCHANGED << request_ids, user_selected_directory, host_queue >>
    /\ UNCHANGED << search_term, files_panes_results, panes, pool_files, rust_assets,
                    shell_histories, current_cwd, matcher, selected_index, initial_cwd,
                    searching_for_git_repo, plugin_ids, host_folder, folder_events,
                    uuid_count, plugin_pc >>
    /\ UNCHANGED besidePlugin

\* A message is piped to the plugin; one under another name is tried where it
\* would otherwise pass.
Pipe ==
    \E name \in PipeNames, payload \in PipePayloads, request_id \in PipeRequestIds :
        /\ \/ name = "filepicker_result"
           \/ /\ payload # None
              /\ request_id # None
              /\ position(request_ids, request_id[1]) # None
        /\ pipe(name, payload, request_id)

(***************************************************************************)
(* Specifications                                                          *)
(***************************************************************************)
\* Parsing one file: scan_with_bytes on each of the bounded file contents.
InitParse ==
    /\ bytes \in FileContents
    /\ scan = ScanStart
    /\ WalkIdle
    /\ QueryIdle
    /\ SearchIdle
    /\ PluginIdle

NextParse == ParseLine

SpecParse == InitParse /\ [][NextParse]_vars

\* One directory scan.
SpecWalk == InitWalk /\ [][NextWalk]_vars

\* Mode detection and display filtering on each query and stored result list.
InitQuery ==
    /\ search_term \in Queries
    /\ files_panes_results \in StoredLists
    /\ mode = None
    /\ display = << >>
    /\ query_pc = "start"
    /\ ParseIdle
    /\ WalkIdle
    /\ SearchIdle
    /\ PluginIdle

NextQuery == DetectMode \/ ShowResults

SpecQuery == InitQuery /\ [][NextQuery]_vars

\* One search on each input.
InitSearch ==
    LET Start(in) ==
            /\ search_term = in.term
            /\ panes = in.panes
            /\ pool_files = in.files
            /\ rust_assets = in.assets
            /\ shell_histories = in.hist
            /\ matcher = MatcherOf(in)
    IN  /\ \/ \E ps \in BrowsePanes, fs \in BrowseFiles, as \in BrowseAssets,
                 b \in BrowseBash, z \in BrowseZsh, pm \in BrowseAnswers :
                 Start(SearchInput(<< >>, ps, fs, as, HistoryOf(b, << >>, z), pm,
                                   NoAnswers(CommandTexts)))
           \/ \E fs \in SessionFiles, as \in SessionAssets, pm \in SessionAnswers :
                 Start(SearchInput(QueryAb, FixedPanes, fs, as, << >>, pm,
                                   NoAnswers(CommandTexts)))
           \/ \E b \in CommandLists(MaxCommands), z \in ZshLists, cm \in HistoryAnswers :
                 Start(SearchInput(QueryAb, << >>, << >>, << >>, HistoryOf(b, << >>, z),
                                   NoAnswers(PaneTitles), cm))
           \/ \E b \in CommandLists(1), f \in LongFish, cm \in HistoryAnswers :
                 Start(SearchInput(QueryAb, << >>, << >>, << >>, HistoryOf(b, f, << >>),
                                   NoAnswers(PaneTitles), cm))
           \/ \E ps \in { << >>, FixedPanes }, fs \in FilePools :
                 Start(SearchInput(QueryAb, ps, fs, << >>, << >>,
                                   [ t \in PaneTitles |-> Match(7, << 0, 1 >>) ],
                                   NoAnswers(CommandTexts)))
        /\ current_cwd = CwdPath
        /\ dual_results = << >>
        /\ matcher_calls = 0
        /\ displayed_files = << >>
        /\ search_pc = "call"
        /\ files_panes_results = << >> /\ mode = None /\ display = << >> /\ query_pc = "idle"
        /\ ParseIdle
        /\ WalkIdle
        /\ PluginIdle

NextSearch == Search \/ DisplayFiles

SpecSearch == InitSearch /\ [][NextSearch]_vars

\* The plugin from its construction: every event, key and pipe message in any
\* order, and the host applying folder changes in between.
InitPlugin ==
    /\ \E cwd \in InitialCwds :
          /\ plugin_ids = [plugin_id |-> 7, initial_cwd |-> cwd]
          /\ host_folder = cwd
    /\ search_term = << >>
    /\ files_panes_results = << >>
    /\ panes = << >>
    /\ pool_files = << >>
    /\ rust_assets = << >>
    /\ shell_histories = << >>
    /\ current_cwd = << >>
    /\ matcher = SkimMatcher
    /\ selected_index = None
    /\ request_ids = << >>
    /\ initial_cwd = None
    /\ searching_for_git_repo = FALSE
    /\ user_selected_directory = FALSE
    /\ host_queue = << >>
    /\ folder_events = << >>
    /\ uuid_count = 0
    /\ event = << >>
    /\ calls = << >>
    /\ plugin_pc = "unloaded"
    /\ mode = None /\ display = << >> /\ query_pc = "idle"
    /\ dual_results = << >> /\ matcher_calls = 0 /\ displayed_files = << >>
    /\ search_pc = "idle"
    /\ ParseIdle
    /\ WalkIdle

NextPlugin ==
    \/ Load
    \/ PermissionRequestResult
    \/ TabUpdate
    \/ PaneUpdate
    \/ HostAppliesChange
    \/ HostFolderChanged
    \/ KeyDown
    \/ KeyUp
    \/ KeyEnterOrTab
    \/ KeyChar
    \/ KeyBackspace
    \/ KeyCtrlC
    \/ KeyCtrlF
    \/ Pipe

SpecPlugin == InitPlugin /\ [][NextPlugin]_vars

\* The events that bear on the search for the git repository: the start of
\* the plugin, the host's folder changes, the file picker and the keys that
\* close the plugin.
NextGitSearch ==
    \/ Load
    \/ PermissionRequestResult
    \/ TabUpdate
    \/ PaneUpdate
    \/ HostAppliesChange
    \/ HostFolderChanged
    \/ KeyDown
    \/ KeyUp
    \/ KeyEnterOrTab
    \/ KeyCtrlC
    \/ KeyCtrlF
    \/ Pipe

\* The plugin under a host that applies every change_host_folder request and
\* a runtime that delivers every HostFolderChanged event to update.
SpecGitSearch ==
    /\ InitPlugin
    /\ [][NextGitSearch]_vars
    /\ WF_vars(HostAppliesChange)
    /\ WF_vars(HostFolderChanged)

(***************************************************************************)
(* Properties of the DirectoryScanner                                      *)
(***************************************************************************)
IsPrefix(p, q) == Len(p) <= Len(q) /\ SubSeq(q, 1, Len(p)) = p

\* C1: at every point of the traversal at most 1000 files are held, no
\* directory is read once 1000 are held, and the returned map has at most
\* 1000 paths.
C1_CapInvariant ==
    /\ Len(files) <= 1000
    /\ \A k \in DOMAIN read_log : read_log[k].found < 1000
    /\ scan_pc = "done" => Cardinality(DOMAIN result) <= 1000

\* The cap was reached in the second directory read and the scan returned.
C1_Witness ==
    /\ scan_pc = "done"
    /\ Cardinality(DOMAIN result) = 1000
    /\ Len(read_log) = 2

\* The directories of the explored tree whose base name is in the ignore set
\* (a listing answered by Err lists nothing; the many files of a wide listing
\* are files).
IgnoredDirsIn(dir, listing) ==
    IF listing = "err" THEN {}
    ELSE { Append(dir, e.name) :
            e \in { x \in Range(ListingHead(listing)) :
                        x.ok /\ x.utf8 /\ x.kind = "dir" /\ x.name \in IgnoredNames } }

ListedIgnoredDirs ==
    UNION { IgnoredDirsIn(read_log[k].dir, read_log[k].listing) : k \in DOMAIN read_log }

StripHost(path) == IF path[1] = "host" /\ Len(path) >= 2 THEN Tail(path) ELSE path

\* C2: a directory of the tree whose base name is in the ignore set is never
\* read nor queued, and no path at or beneath it is in the returned map.
C2_IgnoredDirsUntouched ==
    \A d \in ListedIgnoredDirs :
        /\ \A k \in DOMAIN read_log : ~IsPrefix(d, read_log[k].dir)
        /\ \A k \in DOMAIN queue : ~IsPrefix(d, queue[k])
        /\ scan_pc = "done" => \A p \in DOMAIN result : ~IsPrefix(StripHost(d), p)

\* A scan that met ignored directories next to a directory it did descend into.
C2_Witness ==
    /\ scan_pc = "done"
    /\ Len(read_log) >= 2
    /\ ListedIgnoredDirs # {}
    /\ files # << >>

(***************************************************************************)
(* Properties of the SymbolExtractor                                       *)
(***************************************************************************)
NewlinesOf(bs) == { j \in DOMAIN bs : bs[j] = "\n" }
NumLines(bs) == Cardinality(NewlinesOf(bs)) + 1

\* The k-th line of bs (k >= 1), without its newline.
RawLine(bs, k) ==
    LET nl == NewlinesOf(bs)
        before == IF k = 1 THEN 0
                  ELSE CHOOSE j \in nl : Cardinality({ n \in nl : n < j }) = k - 2
        after  == IF k = Cardinality(nl) + 1 THEN Len(bs) + 1
                  ELSE CHOOSE j \in nl : Cardinality({ n \in nl : n < j }) = k - 1
    IN  SubSeq(bs, before + 1, after - 1)

\* A line without its leading spaces and tabs.
Trimmed(line) ==
    LET rest == { j \in DOMAIN line : line[j] \notin {" ", "\t"} }
    IN  IF rest = {} THEN << >> ELSE SubSeq(line, Min(rest), Len(line))

TrimmedLine(k) == Trimmed(RawLine(bytes, k))

\* Line k was looked at before scan_with_bytes returned: the scan did not stop
\* at the per-file cap before it.
LineReached(k) ==
    \/ Len(scan.definitions) <= 50
    \/ k <= scan.definitions[Len(scan.definitions)].line_number

ReferenceLines ==
    { << LnPubStructFoo, "Struct", << "F","o","o" >> >>,
      << LnEnumBar, "Enum", << "B","a","r" >> >>,
      << LnFnBaz, "Function", << "b","a","z" >> >>,
      << LnPubFnQux, "PubFunction", << "q","u","x" >> >> }

\* C3: each reference definition line that the scan looks at yields its
\* symbol (kind and name) with the number of that line, whatever spaces or
\* tabs precede it.
C3_ReferenceLinesExtracted ==
    scan.returned =>
        \A k \in 1..NumLines(bytes) : \A r \in ReferenceLines :
            (TrimmedLine(k) = r[1] /\ LineReached(k)) =>
                \E n \in DOMAIN scan.definitions :
                    scan.definitions[n] =
                        [type_kind |-> r[2], name |-> r[3], file_path |-> ParsePath,
                         line_number |-> k]

\* An indented `pub fn qux(` on the second line was extracted.
C3_Witness ==
    /\ scan.returned
    /\ NumLines(bytes) = 2
    /\ RawLine(bytes, 2) = << " ", "\t" >> \o LnPubFnQux
    /\ \E n \in DOMAIN scan.definitions :
            /\ scan.definitions[n].type_kind = "PubFunction"
            /\ scan.definitions[n].line_number = 2

KeywordOf(kind) ==
    CASE kind = "Struct" -> << "s","t","r","u","c","t" >>
      [] kind = "Enum" -> << "e","n","u","m" >>
      [] kind \in {"Function", "PubFunction"} -> << "f","n" >>

\* The keyword occurs in the line, immediately followed by a space or a tab.
KeywordThenWhitespace(line, kw) ==
    \E j \in 1..Len(line) :
        /\ j + Len(kw) <= Len(line)
        /\ SubSeq(line, j, j + Len(kw) - 1) = kw
        /\ line[j + Len(kw)] \in {" ", "\t"}

NonDefinitionLines ==
    { LnCommentedStruct, LnBlockCommentFn, LnStructure, LnEnumerate, LnFnord }

\* C4: no symbol comes from a line whose first non-blank content opens a
\* comment, nor from a line in which the keyword is not immediately followed
\* by whitespace.
C4_NoSymbolFromCommentOrLongerWord ==
    /\ \A n \in DOMAIN scan.definitions :
        LET d == scan.definitions[n]
            line == TrimmedLine(d.line_number)
        IN  /\ d.line_number \in 1..NumLines(bytes)
            /\ ~StartsWith(line, << "/", "/" >>)
            /\ ~StartsWith(line, << "/", "*" >>)
            /\ KeywordThenWhitespace(line, KeywordOf(d.type_kind))
    /\ \A k \in 1..NumLines(bytes) :
        TrimmedLine(k) \in NonDefinitionLines =>
            \A n \in DOMAIN scan.definitions : scan.definitions[n].line_number # k

\* A commented-out definition and a `structure Foo` line were scanned and a
\* definition on no such line was found.
C4_Witness ==
    /\ scan.returned
    /\ NumLines(bytes) = 2
    /\ TrimmedLine(1) \in { LnCommentedStruct, LnBlockCommentFn }
    /\ TrimmedLine(2) \in { LnStructure, LnEnumerate, LnFnord }
    /\ scan.definitions = << >>


(***************************************************************************)
(* Query mode (C5, C6)                                                     *)
(***************************************************************************)
\* A letter and its other case, for the letters of the three keywords.
CasePairs ==
    { << "s","S" >>, << "t","T" >>, << "r","R" >>, << "u","U" >>, << "c","C" >>,
      << "e","E" >>, << "n","N" >>, << "m","M" >>, << "f","F" >> }
SameLetter(a, b) == a = b \/ << a, b >> \in CasePairs \/ << b, a >> \in CasePairs

\* The query begins with the keyword, in any casing, and then one space.
BeginsWithKeyword(q, kw) ==
    /\ Len(q) >= Len(kw) + 1
    /\ \A k \in 1..Len(kw) : SameLetter(q[k], kw[k])
    /\ q[Len(kw) + 1] = " "

RestAfter(q, kw) == [ k \in 1..(Len(q) - Len(kw) - 1) |-> q[k + Len(kw) + 1] ]

ExpectedMode(q) ==
    IF BeginsWithKeyword(q, << "s","t","r","u","c","t" >>)
    THEN << [kind |-> "Struct", rest |-> RestAfter(q, << "s","t","r","u","c","t" >>)] >>
    ELSE IF BeginsWithKeyword(q, << "e","n","u","m" >>)
    THEN << [kind |-> "Enum", rest |-> RestAfter(q, << "e","n","u","m" >>)] >>
    ELSE IF BeginsWithKeyword(q, << "f","n" >>)
    THEN << [kind |-> "Function", rest |-> RestAfter(q, << "f","n" >>)] >>
    ELSE << >>

\* C5: once the mode of a query has been detected, it is the Struct, Enum or
\* Function mode exactly when the query begins with `struct `, `enum ` or `fn `
\* in any letter case, its remainder is the rest of the original query with
\* the casing unchanged, and every other query has no mode.
C5_ModeIffKeywordPrefix ==
    query_pc \in {"mode", "shown"} => mode = ExpectedMode(search_term)

\* An upper-case keyword with a mixed-case remainder has been given the Struct
\* mode, and the remainder kept its casing.
C5_Witness ==
    /\ query_pc = "mode"
    /\ search_term = << "S","T","R","U","C","T"," ","F","o","o" >>
    /\ mode = << [kind |-> "Struct", rest |-> << "F","o","o" >>] >>

\* C6: when the query is in a symbol-kind mode, every displayed result is a
\* code symbol of that mode's kind (no pane, no file, no other kind), whatever
\* the stored result list holds.
C6_DisplayOnlyModeKind ==
    (query_pc = "shown" /\ ExpectedMode(search_term) # << >>) =>
        \A k \in DOMAIN display :
            /\ display[k].item.tag = "RustAsset"
            /\ display[k].item.def.type_kind = ExpectedMode(search_term)[1].kind

\* A struct query over a stored list holding a struct and something else has
\* displayed the struct alone.
C6_Witness ==
    /\ query_pc = "shown"
    /\ ExpectedMode(search_term) # << >>
    /\ ExpectedMode(search_term)[1].kind = "Struct"
    /\ Len(files_panes_results) = 2
    /\ Len(display) = 1
    /\ \E k \in DOMAIN files_panes_results :
          files_panes_results[k].item.tag = "RustAsset"
          /\ files_panes_results[k].item.def.type_kind = "Enum"


(***************************************************************************)
(* Search results (C7, C8, C9, C10)                                        *)
(***************************************************************************)
Returned == search_pc = "returned"
PaneFilesResults == dual_results.files_panes_results
HistoryResults == dual_results.shell_commands_results
HistoryEntries ==
    UNION { { << sh, k >> : k \in DOMAIN shell_histories[sh] } : sh \in DOMAIN shell_histories }
HasHistory == \E sh \in DOMAIN shell_histories : shell_histories[sh] # << >>

\* C7: for the empty query the matcher is never called and the result is
\* every session with score 1000, then every symbol with score 500, then the
\* first min(|files|, 50) files in pool order with score 100, all with empty
\* indices; the result is non-empty when some pool is non-empty.
C7_EmptyQueryBrowseAll ==
    (Returned /\ search_term = << >>) =>
        LET r == PaneFilesResults
            np == Len(panes)
            na == Len(rust_assets)
            nf == IF Len(pool_files) <= 50 THEN Len(pool_files) ELSE 50
        IN  /\ matcher_calls = 0
            /\ Len(r) = np + na + nf
            /\ \A k \in 1..np :
                  r[k] = [item |-> [tag |-> "Pane", id |-> panes[k].id, title |-> panes[k].title],
                          score |-> 1000, indices |-> << >>]
            /\ \A k \in 1..na :
                  r[np + k] = [item |-> [tag |-> "RustAsset", def |-> rust_assets[k]],
                               score |-> 500, indices |-> << >>]
            /\ \A k \in 1..nf :
                  r[np + na + k] = [item |-> [tag |-> "File", path |-> pool_files[k]],
                                    score |-> 100, indices |-> << >>]
            /\ (np + na + Len(pool_files) > 0 \/ HasHistory) =>
                  (Len(r) > 0 \/ Len(HistoryResults) > 0)
            /\ np + na + Len(pool_files) > 0 => Len(r) > 0

\* The empty query over sessions, symbols and more than 50 files has returned
\* the sessions, the symbols and 50 files.
C7_Witness ==
    /\ Returned
    /\ search_term = << >>
    /\ Len(panes) = 3 /\ Len(rust_assets) = 2 /\ Len(pool_files) = 51
    /\ Len(PaneFilesResults) = 55
    /\ PaneFilesResults[55].item.tag = "File"

Consecutive(indices) == \A k \in 1..(Len(indices) - 1) : indices[k + 1] - indices[k] = 1
PanePosition(id) ==
    { k \in DOMAIN PaneFilesResults :
        PaneFilesResults[k].item.tag = "Pane" /\ PaneFilesResults[k].item.id = id }
\* Two sessions matched with one base score, the first on a contiguous run and
\* the second not.
BoostPair(i, j) ==
    /\ matcher[panes[i].title] # << >>
    /\ matcher[panes[j].title] # << >>
    /\ matcher[panes[i].title][1].score = matcher[panes[j].title][1].score
    /\ Consecutive(matcher[panes[i].title][1].indices)
    /\ ~Consecutive(matcher[panes[j].title][1].indices)

\* C8: in a search with a non-empty query, of two sessions matched with the
\* same base score, one on a contiguous run of indices and one not, the
\* contiguous one has the strictly greater final score and the earlier rank.
C8_ContiguousBeatsScattered ==
    (Returned /\ search_term # << >>) =>
        \A i, j \in DOMAIN panes :
            BoostPair(i, j) =>
                \E a \in PanePosition(panes[i].id) : \E b \in PanePosition(panes[j].id) :
                    /\ PaneFilesResults[a].score > PaneFilesResults[b].score
                    /\ a < b

\* A search has returned with a contiguous and a scattered session match of
\* one base score, the scattered one being first in the pool.
C8_Witness ==
    /\ Returned
    /\ search_term # << >>
    /\ \E i, j \in DOMAIN panes : BoostPair(i, j) /\ j < i
    /\ Len(PaneFilesResults) >= 2

InCwd(r) == \E k \in DOMAIN r.item.folders : r.item.folders[k] = "/host/proj"
CommandOf(r) ==
    CHOOSE c \in { shell_histories[r.item.shell][k] : k \in DOMAIN shell_histories[r.item.shell] } :
        c.command = r.item.command
Stamp(r) == CommandOf(r).latest_timestamp
HistoryPosition(sh, text) ==
    { k \in DOMAIN HistoryResults :
        HistoryResults[k].item.shell = sh /\ HistoryResults[k].item.command = text }
MatchedCommands ==
    { e \in HistoryEntries : matcher[shell_histories[e[1]][e[2]].command] # << >> }
RanHere(e) ==
    \E k \in DOMAIN shell_histories[e[1]][e[2]].folders :
        shell_histories[e[1]][e[2]].folders[k] = "/host/proj"

\* C9: in the history results of a search with a non-empty query, every
\* command run in the current directory is ranked before every command that
\* was not, whatever the scores and timestamps; and when all matches fit in
\* the list, a matched command run here precedes a matched one that was not.
C9_CurrentDirFirst ==
    (Returned /\ search_term # << >>) =>
        /\ \A a, b \in DOMAIN HistoryResults :
              (InCwd(HistoryResults[a]) /\ ~InCwd(HistoryResults[b])) => a < b
        /\ Cardinality(MatchedCommands) <= 50 =>
              \A e, f \in MatchedCommands :
                  (RanHere(e) /\ ~RanHere(f)) =>
                      \E a \in HistoryPosition(e[1], shell_histories[e[1]][e[2]].command) :
                      \E b \in HistoryPosition(f[1], shell_histories[f[1]][f[2]].command) :
                          a < b

\* Two commands of one text and score are in the history results, the one run
\* here first although the other is the more recent.
C9_Witness ==
    /\ Returned
    /\ search_term # << >>
    /\ \E a, b \in DOMAIN HistoryResults :
          /\ a < b
          /\ HistoryResults[a].item.command = HistoryResults[b].item.command
          /\ InCwd(HistoryResults[a]) /\ ~InCwd(HistoryResults[b])
          /\ Stamp(HistoryResults[a]) = << 1 >> /\ Stamp(HistoryResults[b]) = << 2 >>

SameTier(x, y) == InCwd(x) <=> InCwd(y)

EqualRank(a, b) ==
    /\ SameTier(HistoryResults[a], HistoryResults[b])
    /\ HistoryResults[a].score = HistoryResults[b].score

\* Of two stamped commands of equal rank the more recent is first.
StampedRecentFirst ==
    \A a, b \in DOMAIN HistoryResults :
        (/\ EqualRank(a, b)
         /\ Stamp(HistoryResults[a]) # << >>
         /\ Stamp(HistoryResults[b]) # << >>
         /\ Stamp(HistoryResults[a])[1] > Stamp(HistoryResults[b])[1]) => a < b

\* Of two commands of equal rank the stamped one is before the unstamped one.
StampedBeforeUnstamped ==
    \A a, b \in DOMAIN HistoryResults :
        (/\ EqualRank(a, b)
         /\ Stamp(HistoryResults[a]) # << >>
         /\ Stamp(HistoryResults[b]) = << >>) => a < b

\* C10: within one history tier, of two matched commands with equal score the
\* one with the later latest_timestamp is ranked first, and a command without
\* a timestamp is ranked after a command that has one.
C10_RecencyTieBreak ==
    (Returned /\ search_term # << >>) => (StampedRecentFirst /\ StampedBeforeUnstamped)


(***************************************************************************)
(* Failure handling of the traversal (C17, C18)                            *)
(***************************************************************************)
ScanReturned == scan_pc = "done"
ReadOk == { k \in DOMAIN read_log : read_log[k].listing # "err" }
ReadFailed == { k \in DOMAIN read_log : read_log[k].listing = "err" }
\* The entries of a listing that can be read, have a UTF-8 name and are not in
\* the ignore set.
UsableEntries(listing) ==
    { e \in Range(ListingHead(listing)) : e.ok /\ e.utf8 /\ e.name \notin IgnoredNames }
HasBrokenEntry(listing) ==
    \E e \in Range(ListingHead(listing)) : ~e.ok \/ ~e.utf8

\* C17: the traversal has no failure outcome and always returns a map; when
\* the cap was not reached, a directory whose read failed contributes no path,
\* and in every directory that was read each usable file is listed and each
\* usable sub-directory was read in turn, whatever else failed beside it.
C17_FailuresSkippedSiblingsKept ==
    /\ scan_pc \in { "idle", "pop", "entries", "build", "done" }
    /\ (ScanReturned /\ Len(files) < 1000) =>
          /\ DOMAIN result = Range(files)
          /\ \A k \in ReadFailed : \A p \in DOMAIN result :
                ~(Len(p) = Len(StripHost(read_log[k].dir)) + 1
                  /\ IsPrefix(StripHost(read_log[k].dir), p))
          /\ \A k \in ReadOk : \A e \in UsableEntries(read_log[k].listing) :
                /\ e.kind = "file" =>
                      StripHost(Append(read_log[k].dir, e.name)) \in DOMAIN result
                /\ e.kind = "dir" =>
                      \E j \in DOMAIN read_log : read_log[j].dir = Append(read_log[k].dir, e.name)

\* A scan has returned in which a directory could not be read, another held
\* entries that could not be read, and the readable file beside them is listed.
C17_Witness ==
    /\ ScanReturned
    /\ Len(files) < 1000
    /\ ReadFailed # {}
    /\ \E k \in ReadOk :
          /\ HasBrokenEntry(read_log[k].listing)
          /\ StripHost(Append(read_log[k].dir, "big.rs")) \in DOMAIN result
    /\ \E k \in ReadFailed : \E j \in ReadOk : j > k /\ read_log[j].listing # "empty"

BaseName(p) == p[Len(p)]
\* The files of the model that have the rs extension, can be read and are not
\* larger than 1,000,000 bytes.
Scannable(p) == BaseName(p) \in { "main.rs", "mod.rs" }

\* C18: every file found by the traversal is a key of the returned map, and
\* the symbol list of a file that has no rs extension, cannot be read or is
\* larger than 1,000,000 bytes is empty.
C18_EveryFileKeptUnscannableEmpty ==
    ScanReturned =>
        /\ \A k \in DOMAIN files : files[k] \in DOMAIN result
        /\ \A p \in DOMAIN result : ~Scannable(p) => result[p] = << >>

\* The returned map holds an oversized file and an unreadable one without
\* symbols, a file of another extension, and a scanned file with symbols.
C18_Witness ==
    /\ ScanReturned
    /\ \E p \in DOMAIN result : BaseName(p) = "big.rs" /\ result[p] = << >>
    /\ \E p \in DOMAIN result : BaseName(p) = "locked.rs" /\ result[p] = << >>
    /\ \E p \in DOMAIN result : BaseName(p) = "notes.txt" /\ result[p] = << >>
    /\ \E p \in DOMAIN result : BaseName(p) = "main.rs" /\ result[p] # << >>


(***************************************************************************)
(* Caps on file and history results (C19, C20)                             *)
(***************************************************************************)
Rendered == search_pc = "rendered"
FileText(k) == to_string_lossy(pool_files[k])
MatchingFiles == { k \in DOMAIN pool_files : matcher[FileText(k)] # << >> }
RawScore(k) == matcher[FileText(k)][1].score
\* File j of the pool is ahead of file i: a higher raw score, or the same score
\* and an earlier place in the pool.
Outranks(j, i) == RawScore(j) > RawScore(i) \/ (RawScore(j) = RawScore(i) /\ j < i)
AheadOf(i) == { j \in MatchingFiles : Outranks(j, i) }
TopThree == { i \in MatchingFiles : Cardinality(AheadOf(i)) < 3 }
TopThreeInOrder ==
    [ n \in 1..Cardinality(TopThree) |->
        pool_files[CHOOSE i \in TopThree : Cardinality(AheadOf(i)) = n - 1] ]
IsFileResult(r) == r.item.tag = "File"
FileResults == SelectSeq(PaneFilesResults, IsFileResult)

\* C19: a search with a non-empty query returns at most 3 file results, which
\* are the 3 matching files of highest raw score with ties in pool order, each
\* with its raw score; get_displayed_files returns the same at most 3 files and
\* a remaining count such that displayed + remaining is the number of matching
\* files.
C19_TopThreeFiles ==
    /\ ((Returned \/ Rendered) /\ search_term # << >>) =>
          /\ Len(FileResults) <= 3
          /\ [ k \in DOMAIN FileResults |-> FileResults[k].item.path ] = TopThreeInOrder
          /\ \A k \in DOMAIN FileResults : \E i \in MatchingFiles :
                pool_files[i] = FileResults[k].item.path /\ FileResults[k].score = RawScore(i)
    /\ (Rendered /\ search_term # << >>) =>
          /\ Len(displayed_files[1]) <= 3
          /\ displayed_files[1] = TopThreeInOrder
          /\ Len(displayed_files[1]) + displayed_files[2] = Cardinality(MatchingFiles)

\* Four of five files match, two of them with the same highest score and the
\* later of the two first in the pool; three are shown among session results
\* and one remains.
C19_Witness ==
    /\ Rendered
    /\ search_term # << >>
    /\ Len(pool_files) = 5
    /\ Cardinality(MatchingFiles) = 4
    /\ displayed_files = << << << "src", "f5.rs" >>, << "src", "f2.rs" >>, << "src", "f4.rs" >> >>, 1 >>
    /\ Len(FileResults) = 3
    /\ Len(PaneFilesResults) > 3

IsTierOne(r) == InCwd(r)
KeptCommands == { << HistoryResults[k].item.shell, HistoryResults[k].item.command >> :
                    k \in DOMAIN HistoryResults }
EntryKey(e) == << e[1], shell_histories[e[1]][e[2]].command >>
Kept(e) == EntryKey(e) \in KeptCommands
TierOneMatches == { e \in MatchedCommands : RanHere(e) }
TierTwoMatches == { e \in MatchedCommands : ~RanHere(e) }

\* C20: the history results of a search with a non-empty query have at most 50
\* entries and are the first 50 of 'tier one, then tier two': as many entries
\* as match up to 50, tier one before tier two, tier two only as far as tier one
\* leaves room, and no tier-two command kept while a matching tier-one command
\* is dropped.
C20_HistoryCapKeepsTierOne ==
    ((Returned \/ Rendered) /\ search_term # << >>) =>
        /\ Len(HistoryResults) <= 50
        /\ Len(HistoryResults) = Min({ 50, Cardinality(MatchedCommands) })
        /\ \A k \in DOMAIN HistoryResults : \E e \in MatchedCommands :
              EntryKey(e) = << HistoryResults[k].item.shell, HistoryResults[k].item.command >>
        /\ \A i, j \in DOMAIN HistoryResults :
              (IsTierOne(HistoryResults[i]) /\ ~IsTierOne(HistoryResults[j])) => i < j
        /\ Cardinality({ e \in TierOneMatches : Kept(e) })
              = Min({ 50, Cardinality(TierOneMatches) })
        /\ (\E e \in TierTwoMatches : Kept(e)) => \A e \in TierOneMatches : Kept(e)

\* More than 50 commands match; 50 are kept, among them the one command of the
\* current directory, and a command of another directory is dropped.
C20_Witness ==
    /\ Returned
    /\ search_term # << >>
    /\ Cardinality(MatchedCommands) > 50
    /\ Len(HistoryResults) = 50
    /\ TierOneMatches # {}
    /\ \A e \in TierOneMatches : Kept(e)
    /\ \E e \in TierTwoMatches : Kept(e)
    /\ \E e \in TierTwoMatches : ~Kept(e)


(***************************************************************************)
(* Properties of the plugin (C11 to C16)                                   *)
(***************************************************************************)
Loaded == plugin_pc \in { "loaded", "running", "closed" }
\* What is on display and the mode in force, read from the state.
Shown == get_current_display_results(search_term, files_panes_results)
DetectedMode == get_rust_asset_search_mode(search_term)
\* The symbols of the pool, file after file.
PoolSymbols == get_rust_assets(rust_assets)
\* The search on the query text, the pools and the current directory alone.
FreshResults ==
    search(search_term, panes, pool_files, PoolSymbols, shell_histories,
           current_cwd).files_panes_results

\* C11: in every state of the loaded plugin the stored results, and so what
\* is displayed and the detected mode, are what one search on the query text,
\* the pools and the current directory gives; whatever keys led to the query,
\* and with a matcher that no event changes.
C11_ResultsFunctionOfQueryAndPools ==
    Loaded =>
        /\ files_panes_results = FreshResults
        /\ Shown = get_current_display_results(search_term, FreshResults)
        /\ matcher = SkimMatcher

\* Backspace has just taken the remainder off a symbol-kind query, and the
\* symbols of that kind are on display again.
C11_Witness ==
    /\ plugin_pc = "running"
    /\ event = KeyEvent("Backspace")
    /\ search_term = << "f", "n", " " >>
    /\ DetectedMode # None
    /\ Len(Shown) = 1
    /\ pool_files # << >>

\* C12: a Ctrl-c press closes the plugin exactly when the term is empty at the
\* press; on a non-empty term it clears the term, stores the results of the
\* empty query and does not close; and a Ctrl-c press that follows a Ctrl-c
\* press always closes.
C12_CtrlCClosesIffEmptyTerm ==
    [][ KeyCtrlC =>
          /\ (CloseSelf \in Range(calls')) <=> (search_term = << >>)
          /\ (plugin_pc' = "closed") <=> (search_term = << >>)
          /\ search_term # << >> =>
                /\ search_term' = << >>
                /\ calls' = << >>
                /\ files_panes_results' =
                      search(<< >>, panes, pool_files, PoolSymbols, shell_histories,
                             current_cwd).files_panes_results
          /\ event = KeyEvent("Ctrl-c") => plugin_pc' = "closed" ]_vars

\* A Ctrl-c press has cleared a term and left the plugin open with the browse
\* list of a scanned directory.
C12_Witness ==
    /\ plugin_pc = "running"
    /\ event = KeyEvent("Ctrl-c")
    /\ calls = << >>
    /\ search_term = << >>
    /\ pool_files # << >>
    /\ files_panes_results # << >>

\* The one host action the claim names for a displayed result.
ExpectedAction(r) ==
    CASE r.item.tag = "Pane" ->
           [call |-> "replace_pane_with_existing_pane",
            pane_to_replace |-> << "Plugin", plugin_ids.plugin_id >>,
            existing |-> r.item.id]
      [] r.item.tag = "File" ->
           [call |-> "open_file_in_place_of_plugin",
            file |-> [path |-> current_cwd \o r.item.path, line_number |-> None],
            close_plugin |-> TRUE]
      [] r.item.tag = "RustAsset" ->
           [call |-> "open_file_in_place_of_plugin",
            file |-> [path |-> current_cwd \o r.item.def.file_path,
                      line_number |-> Some(r.item.def.line_number)],
            close_plugin |-> TRUE]

\* C13: Enter or Tab issues exactly one host action for the displayed result
\* at the selected index (the pane replaced by the session's pane; the file
\* opened at current directory/file without a line number; the symbol's file
\* opened at its recorded line), and none when nothing is selected or the index
\* is outside the displayed list.
C13_EnterActsOnSelectedResult ==
    [][ KeyEnterOrTab =>
          IF selected_index # None /\ selected_index[1] < Len(Shown)
          THEN /\ Len(calls') = 1
               /\ calls'[1].call = ExpectedAction(Shown[selected_index[1] + 1]).call
               /\ calls'[1] = ExpectedAction(Shown[selected_index[1] + 1])
          ELSE calls' = << >> ]_vars

\* Enter or Tab has opened the file of a function symbol at its line.
C13_Witness ==
    /\ event \in { KeyEvent("Enter"), KeyEvent("Tab") }
    /\ Len(calls) = 1
    /\ calls[1].call = "open_file_in_place_of_plugin"
    /\ calls[1].file.line_number # None
    /\ calls[1].file.path = current_cwd \o << "a.rs" >>
    /\ plugin_pc = "closed"

Pending(request_id) == request_id # None /\ \E k \in DOMAIN request_ids : request_ids[k] = request_id[1]
Distinct(seq) == \A i, j \in DOMAIN seq : i # j => seq[i] # seq[j]

\* C14: a piped message asks the host for a folder change iff it is named
\* filepicker_result and carries a payload and a pending request id; then the id
\* is removed, the user-selected flag is set and change_host_folder(payload) is
\* called; otherwise nothing changes and no host call is made.  Ids are pending
\* once only: the list has no duplicates and an id enters it only when it is
\* freshly drawn, so each id authorises at most one folder change.
C14_PipeNeedsPendingRequest ==
    [][ /\ \A name \in PipeNames, payload \in PipePayloads, request_id \in PipeRequestIds :
              pipe(name, payload, request_id) =>
                  IF name = "filepicker_result" /\ payload # None /\ Pending(request_id)
                  THEN /\ calls' = << [call |-> "change_host_folder",
                                      folder |-> PathBuf_from(payload[1])] >>
                       /\ Len(host_queue') = Len(host_queue) + 1
                       /\ host_queue'[Len(host_queue')].folder = PathBuf_from(payload[1])
                       /\ user_selected_directory'
                       /\ ~Pending(request_id)'
                       /\ Len(request_ids') = Len(request_ids) - 1
                  ELSE /\ calls' = << >>
                       /\ UNCHANGED << request_ids, user_selected_directory, host_queue,
                                       host_folder, current_cwd, pool_files, rust_assets,
                                       files_panes_results, search_term >>
        /\ Distinct(request_ids')
        /\ \A k \in DOMAIN request_ids' :
              (\A j \in DOMAIN request_ids : request_ids[j] # request_ids'[k]) =>
                  /\ uuid_count' = uuid_count + 1
                  /\ request_ids'[k] = uuid_to_string(uuid_count') ]_vars

\* A filepicker result with a pending id has just been taken: the id is gone,
\* the flag is set and the host was asked for the new folder.
C14_Witness ==
    /\ event = [type |-> "Pipe"]
    /\ calls = << [call |-> "change_host_folder", folder |-> << "", "new" >>] >>
    /\ user_selected_directory
    /\ request_ids = << >>
    /\ uuid_count = 1


\* The HostFolderChanged event at the head of the events is the host's answer
\* to a folder change that a valid filepicker result asked for.
AnswersPick == folder_events # << >> /\ Head(folder_events).picked
PickedFolder == Head(folder_events).folder

\* C15: after the HostFolderChanged(F) event that answers a valid filepicker
\* result for folder F, the current directory is F and the user-selected flag
\* is false, in whatever state the plugin takes the event.
C15_PickedFolderBecomesCwd ==
    [][ (HostFolderChanged /\ AnswersPick) =>
            /\ current_cwd' = PickedFolder
            /\ user_selected_directory' = FALSE ]_vars

\* The scan of the directory the host has mounted.
ScanOfHost == HostScan(host_folder)

\* C16: once the plugin has moved to a folder the user chose, the file pool and
\* the symbol pool are those of a scan of that folder, with nothing left of the
\* directory indexed before.
C16_PoolsRebuiltOnUserChange ==
    [][ (HostFolderChanged /\ AnswersPick /\ current_cwd' = PickedFolder) =>
            /\ pool_files' = [ k \in DOMAIN ScanOfHost |-> ScanOfHost[k][1] ]
            /\ rust_assets' = ScanOfHost ]_vars


(***************************************************************************)
(* Symbol extraction, continued (C21 to C23)                               *)
(***************************************************************************)
\* Some definition of the scan is the symbol (kind, name) on line k.
Extracted(kind, name, k) ==
    \E n \in DOMAIN scan.definitions :
        scan.definitions[n] =
            [type_kind |-> kind, name |-> name, file_path |-> ParsePath, line_number |-> k]

\* C21: a line whose visibility qualifier carries a parenthesised scope,
\* `pub(crate) struct Foo {`, yields the symbol of the line without the scope:
\* the Struct Foo, at that line.
C21_ScopedVisibilitySkipped ==
    scan.returned =>
        \A k \in 1..NumLines(bytes) :
            (TrimmedLine(k) = LnPubCrateStruct /\ LineReached(k)) =>
                Extracted("Struct", << "F","o","o" >>, k)

IdentStops == { "<", "{", "(", ";", " ", "\t", "\n", "\r" }
Letters == Lower \cup Upper \cup { CharEAcute }
\* A name shaped like an identifier: a letter or an underscore, then letters,
\* digits and underscores.
IdentifierShaped(name) ==
    /\ name # << >>
    /\ name[1] \in Letters \cup { "_" }
    /\ \A k \in DOMAIN name : name[k] \in Letters \cup Digit \cup { "_" }

\* C22: the identifier after a keyword yields a symbol exactly when it is
\* shaped like an identifier: `fn _helper(` yields the function _helper,
\* `struct 9Foo` yields nothing, and every emitted name is identifier-shaped.
C22_IdentifierShapeDecides ==
    /\ \A n \in DOMAIN scan.definitions : IdentifierShaped(scan.definitions[n].name)
    /\ scan.returned =>
        \A k \in 1..NumLines(bytes) :
            /\ TrimmedLine(k) = LnStructDigit =>
                  \A n \in DOMAIN scan.definitions : scan.definitions[n].line_number # k
            /\ (TrimmedLine(k) = LnFnHelper /\ LineReached(k)) =>
                  Extracted("Function", << "_","h","e","l","p","e","r" >>, k)

\* The name occurs in the line, as consecutive bytes.
OccursIn(name, line) ==
    \E j \in 1..Len(line) :
        j + Len(name) - 1 <= Len(line) /\ SubSeq(line, j, j + Len(name) - 1) = name

\* C23: while the scan stands inside the content, its line counter is 1 plus
\* the number of newline bytes before its position, whatever the lines before
\* were; each
\* symbol carries the number of the line it stands on (hence at least 1), and
\* the symbols are in strictly increasing order of line number.
C23_LineNumbersCountNewlines ==
    /\ (~scan.returned /\ scan.i <= Len(bytes)) =>
          scan.line_num = 1 + Cardinality({ j \in NewlinesOf(bytes) : j < scan.i })
    /\ \A n \in DOMAIN scan.definitions :
          LET d == scan.definitions[n]
          IN  /\ d.line_number \in 1..NumLines(bytes)
              /\ OccursIn(KeywordOf(d.type_kind) \o << " " >>, RawLine(bytes, d.line_number))
              /\ OccursIn(d.name, RawLine(bytes, d.line_number))
    /\ \A m, n \in DOMAIN scan.definitions :
          m < n => scan.definitions[m].line_number < scan.definitions[n].line_number

\* After a comment line, a definition on the second line was given the line
\* number 2.
C23_Witness ==
    /\ scan.returned
    /\ NumLines(bytes) = 2
    /\ TrimmedLine(1) \in { LnCommentedStruct, LnEmpty }
    /\ Len(scan.definitions) = 1
    /\ scan.definitions[1].line_number = 2


(***************************************************************************)
(* Shape of the traversal (C24, C25)                                       *)
(***************************************************************************)
\* The entries of a whole listing that the traversal can use.
Collectable(listing) ==
    IF listing = "err" THEN {}
    ELSE { e \in Range(Listing(listing)) : e.ok /\ e.utf8 /\ e.name \notin IgnoredNames }

\* The files and the sub-directories that the k-th directory read holds.
FilesIn(k) ==
    { StripHost(Append(read_log[k].dir, e.name)) :
        e \in { x \in Collectable(read_log[k].listing) : x.kind = "file" } }
SubDirsIn(k) ==
    { Append(read_log[k].dir, e.name) :
        e \in { x \in Collectable(read_log[k].listing) : x.kind = "dir" } }

\* The directories of the tree that the traversal knows of, read or not.
KnownDirs == { RootDir } \cup UNION { SubDirsIn(k) : k \in DOMAIN read_log }
Depth(dir) == Len(dir)

\* C25: directories are read in non-decreasing order of depth, each at least
\* as deep as the one read before it; and when the
\* scan has returned, if its output holds a file of a directory at depth d,
\* every known directory at a depth less than d was read, and each of them
\* that could be read has all of its files in the output.
C25_BreadthFirstLevelPrefix ==
    /\ \A i \in DOMAIN read_log :
          i > 1 => Depth(read_log[i - 1].dir) <= Depth(read_log[i].dir)
    /\ ScanReturned =>
          \A k \in DOMAIN read_log :
              (FilesIn(k) \cap DOMAIN result # {}) =>
                  \A dir \in { x \in KnownDirs : Depth(x) < Depth(read_log[k].dir) } :
                      \E m \in DOMAIN read_log :
                          /\ read_log[m].dir = dir
                          /\ FilesIn(m) \subseteq DOMAIN result

\* The cap cut the scan short in a directory of the second level: the output
\* holds files of that directory and every file of the root, and a directory
\* of the third level was never read.
C25_Witness ==
    /\ ScanReturned
    /\ Len(files) = 1000
    /\ Len(read_log) = 2
    /\ Depth(read_log[2].dir) = Depth(RootDir) + 1
    /\ FilesIn(2) \cap DOMAIN result # {}
    /\ ~(FilesIn(2) \subseteq DOMAIN result)
    /\ FilesIn(1) \subseteq DOMAIN result
    /\ \E dir \in KnownDirs : \A m \in DOMAIN read_log : read_log[m].dir # dir


\* C24: whatever the shape of the tree, one scan reads no more directories
\* than a constant fixed by the cap on paths (the root and one directory for
\* each of the 1000 paths), even in a tree of directories that hold no file.
C24_DirectoryReadsBounded == Len(read_log) <= MaxFiles + 1


(***************************************************************************)
(* Functions in the fn mode (C26)                                          *)
(***************************************************************************)
\* The stored results that hold a symbol taken from a `pub fn` line.
StoredPubFunctions ==
    { k \in DOMAIN files_panes_results :
        /\ files_panes_results[k].item.tag = "RustAsset"
        /\ files_panes_results[k].item.def.type_kind = "PubFunction" }

\* C26: for a query in the fn mode, every stored symbol that came from a
\* `pub fn` line is among the displayed results, like the plain functions.
C26_FnModeShowsPubFunctions ==
    (query_pc = "shown" /\ ExpectedMode(search_term) # << >>
        /\ ExpectedMode(search_term)[1].kind = "Function") =>
        \A k \in StoredPubFunctions :
            \E n \in DOMAIN display : display[n] = files_panes_results[k]


(***************************************************************************)
(* The merged list of a non-empty query (C27)                              *)
(***************************************************************************)
MatchedPanes == { i \in DOMAIN panes : matcher[panes[i].title] # << >> }
MatchedAssets == { i \in DOMAIN rust_assets : matcher[Str(rust_assets[i].name)] # << >> }
\* The score a matched session is listed with: ten times the matcher's score
\* when the matched positions are consecutive.
BoostedScore(i) ==
    LET m == matcher[panes[i].title][1]
    IN  IF Consecutive(m.indices) THEN 10 * m.score ELSE m.score
PlacesOfPane(i) ==
    { k \in DOMAIN PaneFilesResults :
        /\ PaneFilesResults[k].item.tag = "Pane"
        /\ PaneFilesResults[k].item.id = panes[i].id
        /\ PaneFilesResults[k].item.title = panes[i].title }
PlacesOfAsset(i) ==
    { k \in DOMAIN PaneFilesResults :
        /\ PaneFilesResults[k].item.tag = "RustAsset"
        /\ PaneFilesResults[k].item.def = rust_assets[i] }
PlacesOfFile(i) ==
    { k \in DOMAIN PaneFilesResults :
        /\ PaneFilesResults[k].item.tag = "File"
        /\ PaneFilesResults[k].item.path = pool_files[i] }
KindRank(r) ==
    CASE r.item.tag = "Pane" -> 1 [] r.item.tag = "RustAsset" -> 2 [] r.item.tag = "File" -> 3

\* C27: for a non-empty query the merged list is in non-increasing order of
\* score; it holds each matched session once with its boosted score, each
\* matched symbol once, each of the top 3 matched files once, and nothing
\* else; and of two results of equal score a session comes before a symbol
\* and a symbol before a file.
C27_MergedListSortedAndExact ==
    (Returned /\ search_term # << >>) =>
        LET r == PaneFilesResults
        IN  /\ \A k \in 1..(Len(r) - 1) : r[k].score >= r[k + 1].score
            /\ \A i \in DOMAIN panes :
                  /\ Cardinality(PlacesOfPane(i)) = IF i \in MatchedPanes THEN 1 ELSE 0
                  /\ \A k \in PlacesOfPane(i) : r[k].score = BoostedScore(i)
            /\ \A i \in DOMAIN rust_assets :
                  /\ Cardinality(PlacesOfAsset(i)) = IF i \in MatchedAssets THEN 1 ELSE 0
                  /\ \A k \in PlacesOfAsset(i) :
                        r[k].score = matcher[Str(rust_assets[i].name)][1].score
            /\ \A i \in DOMAIN pool_files :
                  /\ Cardinality(PlacesOfFile(i)) = IF i \in TopThree THEN 1 ELSE 0
                  /\ \A k \in PlacesOfFile(i) : r[k].score = RawScore(i)
            /\ Len(r) = Cardinality(MatchedPanes) + Cardinality(MatchedAssets)
                            + Cardinality(TopThree)
            /\ \A a, b \in DOMAIN r :
                  (a < b /\ r[a].score = r[b].score) => KindRank(r[a]) <= KindRank(r[b])

\* A session, a symbol and two files were matched with one score and are
\* listed in that order; a session of higher score precedes them although it
\* is later in the pool, and a fourth matching file is left out.
C27_Witness ==
    /\ Returned
    /\ search_term # << >>
    /\ Len(PaneFilesResults) >= 6
    /\ Cardinality(MatchingFiles) = 4
    /\ \E k \in 2..(Len(PaneFilesResults) - 3) :
          /\ PaneFilesResults[k].item.tag = "Pane"
          /\ PaneFilesResults[k + 1].item.tag = "RustAsset"
          /\ PaneFilesResults[k + 2].item.tag = "File"
          /\ PaneFilesResults[k + 3].item.tag = "File"
          /\ PaneFilesResults[k].score = PaneFilesResults[k + 3].score
          /\ PaneFilesResults[k - 1].item.tag = "Pane"
          /\ PaneFilesResults[k - 1].score > PaneFilesResults[k].score
          /\ PaneFilesResults[k - 1].item.id > PaneFilesResults[k].item.id


(***************************************************************************)
(* The selection (C28, C30)                                                *)
(***************************************************************************)
DisplayCount == Len(Shown)
SelectionWithinDisplay ==
    /\ selected_index = None \/ selected_index[1] < DisplayCount
    /\ DisplayCount = 0 => selected_index = None
\* A step of a handler that ends in update_search_results.
RecomputesResults ==
    \/ Load
    \/ PaneUpdate
    \/ KeyChar
    \/ KeyBackspace
    \/ KeyCtrlC /\ search_term # << >>
    \/ HostFolderChanged /\ initial_cwd = None
                         /\ (searching_for_git_repo => host_folder \in GitFolders)

\* C28: from load on, after any sequence of events, the selected index is
\* None or less than the current display count, and None when that count is
\* 0; and right after an event that recomputes the results it is Some(0)
\* exactly when the display count is positive.
C28_SelectionWithinDisplay ==
    /\ [](Loaded => SelectionWithinDisplay)
    /\ [][ RecomputesResults =>
              selected_index' = IF Len(get_current_display_results(search_term',
                                                                   files_panes_results')) > 0
                                THEN Some(0) ELSE None ]_vars

\* Down on the last of several displayed results has left nothing selected.
C28_Witness ==
    /\ plugin_pc = "running"
    /\ event = KeyEvent("Down")
    /\ DisplayCount >= 3
    /\ selected_index = None

\* The selections of a list of n items, and their cycle None, 0, .., n-1, None.
Selections(n) == { None } \cup { Some(k) : k \in 0..(n - 1) }
CycleNext(s, n) ==
    IF n = 0 THEN s
    ELSE IF s = None THEN Some(0)
    ELSE IF s[1] = n - 1 THEN None
    ELSE Some(s[1] + 1)
CyclePrev(s, n) ==
    IF n = 0 THEN s
    ELSE IF s = None THEN Some(n - 1)
    ELSE IF s[1] = 0 THEN None
    ELSE Some(s[1] - 1)
\* The selection after k presses of Down, or of Up, on n items.
RECURSIVE DownPresses(_, _, _)
DownPresses(s, n, k) ==
    IF k = 0 THEN s ELSE DownPresses(move_selection_down(s, n, 0), n, k - 1)
RECURSIVE UpPresses(_, _, _)
UpPresses(s, n, k) ==
    IF k = 0 THEN s ELSE UpPresses(move_selection_up(s, n, 0), n, k - 1)

\* C30: on the n items displayed, Down steps the selection along the cycle
\* None, 0, .., n-1, None and Up steps along it in reverse, so each undoes the
\* other from every selection and n+1 presses of one key come back to the
\* start; with n = 0 the keys leave the selection alone.
C30_DownUpCycle ==
    /\ [](Loaded =>
            \A s \in Selections(DisplayCount) :
                /\ move_selection_down(s, DisplayCount, 0) = CycleNext(s, DisplayCount)
                /\ move_selection_up(s, DisplayCount, 0) = CyclePrev(s, DisplayCount)
                /\ move_selection_up(move_selection_down(s, DisplayCount, 0), DisplayCount, 0) = s
                /\ move_selection_down(move_selection_up(s, DisplayCount, 0), DisplayCount, 0) = s
                /\ DownPresses(s, DisplayCount, DisplayCount + 1) = s
                /\ UpPresses(s, DisplayCount, DisplayCount + 1) = s)
    /\ [][ /\ KeyDown => selected_index' = CycleNext(selected_index, DisplayCount)
           /\ KeyUp => selected_index' = CyclePrev(selected_index, DisplayCount) ]_vars

\* Up with nothing selected has selected the last of several displayed results.
C30_Witness ==
    /\ plugin_pc = "running"
    /\ event = KeyEvent("Up")
    /\ DisplayCount >= 3
    /\ selected_index = Some(DisplayCount - 1)


(***************************************************************************)
(* The search for the git repository (C29)                                 *)
(***************************************************************************)
\* A step of continue_git_repository_search on the folder the host reports.
ContinuesGitSearch ==
    HostFolderChanged /\ initial_cwd = None /\ searching_for_git_repo
ReportedFolder == Head(folder_events).folder
StrictParent(f) == SubSeq(f, 1, Len(f) - 1)
FilepickerRequests(cs) == { k \in 1..Len(cs) : cs[k].call = "pipe_message_to_plugin" }
GitSearchStep ==
    \/ /\ searching_for_git_repo'
       /\ host_folder \notin GitFolders
       /\ Len(ReportedFolder) > 1
       /\ calls' = << ChangeHostFolder(StrictParent(ReportedFolder)) >>
       /\ host_queue' = Append(host_queue, ChangeRequest(StrictParent(ReportedFolder), FALSE))
    \/ /\ ~searching_for_git_repo'
       /\ host_folder \in GitFolders
       /\ calls' = << >>
       /\ pool_files = << >> => pool_files' = keys(HostScan(host_folder))
    \/ /\ ~searching_for_git_repo'
       /\ host_folder \notin GitFolders
       /\ ReportedFolder = FolderRoot
       /\ Len(calls') = 1
       /\ Cardinality(FilepickerRequests(calls')) = 1
       /\ Len(request_ids') = Len(request_ids) + 1

====
